---- MODULE Spec2Model ----
(***************************************************************************)
(* Model of the server-side market data pipeline of the Trading            *)
(* repository: the Twelve Data WebSocket stream service (connection,       *)
(* reconnect timer, price series buffer, tick callbacks) and the rule      *)
(* alert service that is subscribed to it.                                 *)
(***************************************************************************)
EXTENDS Integers, Sequences, FiniteSets, Bags, TLC

\* ------------------------------------------------------------------ bounds
MaxSockets == 2      \* WebSocket objects that are alive (not yet closed) at once
MaxSec == 2          \* wall-clock seconds a tick or bar can be stamped with
MaxHist == 2         \* bars in one historical response
MaxPending == 1      \* historical requests in flight at once
maxPoints == 2       \* config.maxPoints (MAX_POINTS), scaled down
MaxPeriod == 2       \* largest RSI period tried on arbitrary price sequences
MaxPrices == 4       \* length of the longest such sequence
MaxLevel == 3        \* prices and up-tick sizes are 1..MaxLevel
MaxSamples == 2      \* samples in one of the page's sources
MaxHalfMinute == 3   \* sample timestamps are 0..MaxHalfMinute half minutes
MaxData == 2         \* points of the unified data handed to the rule engine
MaxConditions == 2   \* conditions of a rule handed to the rule engine
MaxRules == 2        \* rules of a list handed to the rule engine
HistoryPoints == 12  \* price samples of the history the page loads
ManyRules == 9       \* rules of the longest rule list of the page
MaxLive == 2         \* live price samples after that
maxHistoryPoints == 2  \* IndicatorsService.maxHistoryPoints, scaled down

\* ------------------------------------------------------- program constants
maxReconnectAttempts == 10
reconnectDelay == 3000
defaultPeriod == 14        \* calculateRSI(prices, period = 14)
defaultMaxPoints == 2000   \* MAX_POINTS when the environment sets none
BUCKET_MS == 60000         \* 60 * 1000: one-minute buckets
MAX_SIGNAL_HISTORY == 500

\* Appends to the series that one behaviour performs.
MaxAppends == maxPoints + 2

Codes == {1000, 1006}
Secs == 1..MaxSec
\* A feed instant in half seconds; two instants of one second differ only in
\* their milliseconds.
Instants == 2..(2 * MaxSec + 1)
NaN == -1             \* a price that did not parse
Undefined == -2       \* a missing value (null or undefined)
Null == -3            \* null where the code tells it from undefined
NoPoint == [absent |-> "point"]          \* data[i] === undefined
NoCondition == [absent |-> "condition"]  \* a null condition
NoRule == [absent |-> "rule"]            \* a null rule
NoEvaluation == [of |-> "none"]          \* the rule engine was not called yet
\* no render of the hook has committed yet
NoCommit == [of |-> "none"]

NoIndicatorData == [priceData |-> <<>>, rsiData |-> <<>>, stochasticData |-> <<>>]
NoQuote == [price |-> Undefined, time |-> 0]   \* lastQuote === null
NoMessage == [json |-> FALSE, event |-> "none", price |-> ""]   \* no message was delivered yet

VARIABLES
  sockets,            \* readyState of every WebSocket object created by connect()
  ws,                 \* this.ws: 0 is null, otherwise the socket's index
  isConnected,
  isConnecting,
  reconnectAttempts,
  reconnectTimer,     \* this.reconnectTimer: "null", "pending", or "stale" (a handle that fired or was cleared)
  timerDelay,         \* delay given to the last setTimeout, in 1/1024 ms
  lastQuote,
  series,
  backfillPending,    \* loadHistoricalData() calls awaiting getHistoricalData
  appendCount,        \* history: number of addToSeries() calls; a point's n is its call's number
  indicatorBuffers,   \* indicatorsService.indicatorBuffers: per key, the times of the stored values
  backfills,          \* history: loadHistoricalData() calls that appended bars to the series
  received,           \* history: the last message the feed delivered, as sent
  urlInvalid,         \* new WebSocket(config.twelveDataWsUrl) throws (fixed by the configuration)
  tickCallbacks,      \* this.tickCallbacks
  started,            \* ruleAlertService.started
  startPending,       \* ruleAlertService.start() is awaiting its initial refreshRules()
  rulesCache,
  lastEvaluatedTimestamp,
  sentAlerts,         \* keys of this.sentAlerts
  handlers,           \* bag of the handleTick() invocations suspended at an await
  sendCount,          \* history: telegramService.sendMessage calls per alert key
  failLog,            \* history: alert keys whose send failure was logged
  ticks,              \* history: number of notifyTickCallbacks() rounds
  notified,           \* history: callbacks invoked in the last round, in order
  errorLog,           \* history: number of 'Error in tick callback' log lines
  period,             \* RSI computation: the period asked for
  prices,             \* RSI computation: the price sequence, oldest first
  capacity,           \* RSI computation: the capacity of the series the ticks go through
  fed,                \* RSI computation: number of prices delivered as ticks so far
  rsiBuffer,          \* RSI computation: the values appended tick by tick, {time, rsi}
  tradingRules,       \* the trading_rules table with each rule's rule_conditions, latest update first
  rulesArg,           \* rule engine and hook: the rules handed over
  dataArg,            \* rule engine: the unified data handed over
  indexArg,           \* rule engine: the 1-based index handed over
  evaluation,         \* rule engine: what the call returned
  indicatorData,      \* hook: the indicatorData prop
  unifiedMemo,        \* hook: unifiedData, useMemo(() => mapIndicatorData(indicatorData))
  signalHistory,      \* hook state
  lastDataLength,     \* hook state
  lastDataSignature,  \* hook state
  hookRules,          \* hook: the rules prop
  committed,          \* hook: the effect dependencies of the last commit
  lastEvent,          \* history: last of "open" (open handler ran), "sched" (timer scheduled), "none" (neither since stop())
  stopped             \* history: stop() has returned and start() was not called since

connVars == <<sockets, ws, isConnected, isConnecting, reconnectAttempts, reconnectTimer,
              timerDelay, lastEvent, stopped, urlInvalid>>
dataVars == <<lastQuote, series, backfillPending, appendCount, indicatorBuffers,
              backfills, received>>
fanVars == <<tickCallbacks, ticks, notified, errorLog>>
alertVars == <<started, startPending, rulesCache, lastEvaluatedTimestamp, sentAlerts,
               handlers, sendCount, failLog>>
rsiVars == <<period, prices, capacity, fed, rsiBuffer>>
storeVars == <<tradingRules>>
engineVars == <<rulesArg, dataArg, indexArg, evaluation>>
hookVars == <<indicatorData, unifiedMemo, signalHistory, lastDataLength, lastDataSignature,
              hookRules, committed>>
extVars == <<storeVars, engineVars, hookVars>>
vars == <<connVars, dataVars, fanVars, alertVars, rsiVars, extVars>>

\* ---------------------------------------------------------------- helpers
RECURSIVE Pow(_, _)
Pow(b, n) == IF n = 0 THEN 1 ELSE b * Pow(b, n - 1)

Last(s) == s[Len(s)]

\* toLocaleString('sv-SE') of an instant: the second it falls in.
toLocaleSeconds(t) == t \div 2

\* reconnectDelay * Math.pow(1.5, attempts), in units of 1/1024 ms
ReconnectDelayDecaying(n) == reconnectDelay * Pow(2, n) * Pow(3, maxReconnectAttempts - n)
ReconnectDelayFor(n) == reconnectDelay * Pow(3, n) * Pow(2, maxReconnectAttempts - n)

\* The connector's fields as one record, so that connect() and
\* scheduleReconnect() compose inside the handlers that call them.
Conn == [sockets |-> sockets, ws |-> ws, isConnected |-> isConnected,
         isConnecting |-> isConnecting, reconnectAttempts |-> reconnectAttempts,
         reconnectTimer |-> reconnectTimer, timerDelay |-> timerDelay,
         lastEvent |-> lastEvent]

SetConn(c) ==
  /\ sockets' = c.sockets
  /\ ws' = c.ws
  /\ isConnected' = c.isConnected
  /\ isConnecting' = c.isConnecting
  /\ reconnectAttempts' = c.reconnectAttempts
  /\ reconnectTimer' = c.reconnectTimer
  /\ timerDelay' = c.timerDelay
  /\ lastEvent' = c.lastEvent

FreeSlots(c) == {s \in 1..MaxSockets : c.sockets[s] = "free"}

\* a scheduleReconnect() that never gives up
scheduleReconnectUncapped(c) ==
  [c EXCEPT !.reconnectTimer = "pending",
            !.timerDelay = ReconnectDelayFor(c.reconnectAttempts),
            !.reconnectAttempts = c.reconnectAttempts + 1,
            !.lastEvent = "sched"]

\* a scheduleReconnect() whose limit check lets one more attempt through
scheduleReconnectOffByOne(c) ==
  LET cleared == IF c.reconnectTimer # "null" THEN "stale" ELSE "null"
  IN IF c.reconnectAttempts > maxReconnectAttempts
     THEN [c EXCEPT !.reconnectTimer = cleared]
     ELSE [c EXCEPT !.reconnectTimer = "pending",
                    !.timerDelay = ReconnectDelayFor(c.reconnectAttempts),
                    !.reconnectAttempts = c.reconnectAttempts + 1,
                    !.lastEvent = "sched"]

\* scheduleReconnect()
scheduleReconnect(c) ==
  LET cleared == IF c.reconnectTimer # "null" THEN "stale" ELSE "null"
  IN IF c.reconnectAttempts >= maxReconnectAttempts
     THEN [c EXCEPT !.reconnectTimer = cleared]
     ELSE [c EXCEPT !.reconnectTimer = "pending",
                    !.timerDelay = ReconnectDelayFor(c.reconnectAttempts),
                    !.reconnectAttempts = c.reconnectAttempts + 1,
                    !.lastEvent = "sched"]

\* connect(); throws says whether new WebSocket() throws
connect(c, throws) ==
  IF c.isConnecting
  THEN c
  ELSE IF throws
       THEN scheduleReconnect([c EXCEPT !.isConnecting = FALSE])
       ELSE LET s == CHOOSE x \in FreeSlots(c) : \A y \in FreeSlots(c) : x <= y
            IN [c EXCEPT !.isConnecting = TRUE,
                         !.ws = s,
                         !.sockets[s] = "connecting"]

\* a buffer that never evicts
addToSeriesUnbounded(ser, n, time, price) ==
  Append(ser, [time |-> time, price |-> price, n |-> n])

\* addToSeries(time, price), as the n-th call
addToSeries(ser, n, time, price) ==
  LET pushed == Append(ser, [time |-> time, price |-> price, n |-> n])
  IN IF Len(pushed) > maxPoints THEN Tail(pushed) ELSE pushed

\* parseFloat of a raw JSON value
parseFloat(raw) ==
  CASE raw = "1" -> 1
    [] raw = "2" -> 2
    [] OTHER -> NaN

\* an isNaN that lets every value through
neverNaN(x) == FALSE

isNaN(x) == x = NaN

\* Minimum series length at which each default indicator yields a value.
RsiMinLen == 2
MacdMinLen == 35
StochMinLen == 18
BollMinLen == 20

IndicatorKeys == {"rsi_14", "macd_12_26_9", "stochastic_14_3_3", "bollinger_20_2"}

MinLenOf(key) ==
  CASE key = "rsi_14" -> RsiMinLen
    [] key = "macd_12_26_9" -> MacdMinLen
    [] key = "stochastic_14_3_3" -> StochMinLen
    [] OTHER -> BollMinLen

\* addIndicatorValue(indicator, value, params) on the indicator's buffer: push,
\* then drop the oldest value past the maximum
addIndicatorValue(buf, value) ==
  LET pushed == Append(buf, value)
  IN IF Len(pushed) > maxHistoryPoints THEN Tail(pushed) ELSE pushed

\* updateIndicators(priceData, series): one value per indicator whose window is filled
updateIndicators(bufs, priceData, ser) ==
  IF Len(ser) = 0
  THEN bufs
  ELSE [k \in IndicatorKeys |->
          IF Len(ser) >= MinLenOf(k)
          THEN addIndicatorValue(bufs[k], priceData.time)
          ELSE bufs[k]]

\* ---------------------------------------------------------------------- RSI
\* prices[i] - prices[i - 1] for every i
changesOf(p) == [i \in 1..(Len(p) - 1) |-> p[i + 1] - p[i]]

\* what a change adds to the gains and to the losses
gainOf(change) == IF change > 0 THEN change ELSE 0
lossOf(change) == IF change > 0 THEN 0 ELSE -change

RECURSIVE seedSum(_, _, _)
\* the sum over the first n changes, of their gains (up) or of their losses
seedSum(changes, n, up) ==
  IF n = 0
  THEN 0
  ELSE seedSum(changes, n - 1, up)
       + (IF up THEN gainOf(changes[n]) ELSE lossOf(changes[n]))

\* avgGain and avgLoss after the seed, as the fractions g/d and l/d
seedAverages(changes, n) ==
  [g |-> seedSum(changes, n, TRUE), l |-> seedSum(changes, n, FALSE), d |-> n]

\* Wilder's smoothing: avg = (avg * (period - 1) + value) / period
smooth(avg, change, n) ==
  [g |-> avg.g * (n - 1) + gainOf(change) * avg.d,
   l |-> avg.l * (n - 1) + lossOf(change) * avg.d,
   d |-> avg.d * n]

RECURSIVE smoothThrough(_, _, _, _)
\* the averages after the changes n+1..i have been smoothed in
smoothThrough(changes, n, i, avg) ==
  IF i <= n
  THEN avg
  ELSE smooth(smoothThrough(changes, n, i - 1, avg), changes[i], n)

\* Math.round(x * 100) / 100 of the fraction num/den >= 0, in hundredths
roundHundredths(num, den) == (200 * num + den) \div (2 * den)

\* 100 - 100 / (1 + rs) for rs = g/l, rounded, in hundredths
rsiFrom(g, l) == roundHundredths(100 * g, g + l)

\* a calculateRSI that treats a zero average loss as the series functions do
calculateRSIFixedRs(p, n) ==
  IF Len(p) < n + 1
  THEN Undefined
  ELSE LET changes == changesOf(p)
           avg == smoothThrough(changes, n, Len(changes), seedAverages(changes, n))
       IN IF avg.l = 0 THEN rsiFrom(100, 1) ELSE rsiFrom(avg.g, avg.l)

\* calculateRSI(prices, period), in hundredths; Undefined is null
calculateRSI(p, n) ==
  IF Len(p) < n + 1
  THEN Undefined
  ELSE LET changes == changesOf(p)
           avg == smoothThrough(changes, n, Len(changes), seedAverages(changes, n))
       IN IF avg.l = 0 THEN 10000 ELSE rsiFrom(avg.g, avg.l)

\* calculateHistoricalIndicators(prices, rsiPeriod).rsi: one {ts, rsi} for every
\* change after the seed; the time of a price is its position
calculateHistoricalRsi(p, n) ==
  IF Len(p) < n + 1
  THEN <<>>
  ELSE LET changes == changesOf(p)
           seed == seedAverages(changes, n)
       IN [k \in 1..(Len(changes) - n) |->
             LET avg == smoothThrough(changes, n, n + k, seed)
             IN [ts |-> n + k + 1,
                 rsi |-> IF avg.l = 0 THEN rsiFrom(100, 1) ELSE rsiFrom(avg.g, avg.l)]]

\* the prices of the series after k ticks went through addToSeries() with the
\* given capacity
windowOf(p, k, cap) == SubSeq(p, IF k > cap THEN k - cap + 1 ELSE 1, k)

\* ------------------------------------------------------ subscriber fan-out
\* Callbacks that can be registered with onTick(): the rule alert service's
\* tickHandler, the tickCallback closures of two /gold/stream clients, and a
\* subscriber whose callback throws.
AlertCb == "alert"
SseCbs == {"sse1", "sse2"}
ThrowingCb == "bad"
Subscribers == SseCbs \cup {ThrowingCb}

\* this.tickCallbacks.indexOf(callback), 0 when absent
indexOf(cbs, cb) ==
  IF \E i \in 1..Len(cbs) : cbs[i] = cb
  THEN CHOOSE i \in 1..Len(cbs) : cbs[i] = cb /\ \A j \in 1..(i - 1) : cbs[j] # cb
  ELSE 0

\* offTick(callback): splice(index, 1)
offTick(cbs, cb) ==
  LET i == indexOf(cbs, cb)
  IN IF i > 0 THEN SubSeq(cbs, 1, i - 1) \o SubSeq(cbs, i + 1, Len(cbs)) ELSE cbs

RECURSIVE notifyFrom(_, _, _, _, _)
\* notifyTickCallbacks(quote): Array.prototype.forEach visits index k = 1..len0 of
\* the live array and skips an index that no longer exists.  A /gold/stream
\* callback whose res.write throws (failing) calls offTick on itself.
notifyFrom(cbs, k, len0, failing, acc) ==
  IF k > len0
  THEN [cbs |-> cbs, invoked |-> acc]
  ELSE IF k > Len(cbs)
       THEN notifyFrom(cbs, k + 1, len0, failing, acc)
       ELSE LET cb == cbs[k]
                after == IF cb \in failing THEN offTick(cbs, cb) ELSE cbs
            IN notifyFrom(after, k + 1, len0, failing, Append(acc, cb))

RECURSIVE countOf(_, _)
countOf(seq, x) ==
  IF seq = <<>> THEN 0 ELSE (IF Head(seq) = x THEN 1 ELSE 0) + countOf(Tail(seq), x)

\* ------------------------------------------------------------ rule engine
\* Date.parse of a stored time, in milliseconds
DateParse(time) == time * 1000

RuleIds == {1, 2}

\* The enabled rules the CRUD store returns, with their conditions.
Condition(op, v) ==
  [indicator_key |-> "PRICE", operator |-> op, value |-> v, value_from |-> Undefined,
   value_to |-> Undefined, compare_to_indicator |-> "", lookback |-> 1]

Rules ==
  << [id |-> 1, enabled |-> TRUE, logic |-> "AND", conditions |-> <<Condition("GT", 1)>>],
     [id |-> 2, enabled |-> TRUE, logic |-> "AND",
      conditions |-> <<Condition("GTE", 1), Condition("LTE", 2)>>] >>

\* rulesService.getAllEnabledRules(): the rows with enabled = true, the
\* latest updated first, which is the order the store is kept in
getAllEnabledRules(store) ==
  SelectSeq(store, LAMBDA r : r.enabled)

\* ---- JavaScript's treatment of values that are not numbers
\* ToNumber(x): null is 0, undefined is NaN
ToNumber(x) == IF x = Null THEN 0 ELSE IF x = Undefined THEN NaN ELSE x

\* a > b, a < b, a >= b, a <= b: false as soon as one side is NaN
JsGt(a, b) == ToNumber(a) # NaN /\ ToNumber(b) # NaN /\ ToNumber(a) > ToNumber(b)
JsLt(a, b) == ToNumber(a) # NaN /\ ToNumber(b) # NaN /\ ToNumber(a) < ToNumber(b)
JsGte(a, b) == ToNumber(a) # NaN /\ ToNumber(b) # NaN /\ ToNumber(a) >= ToNumber(b)
JsLte(a, b) == ToNumber(a) # NaN /\ ToNumber(b) # NaN /\ ToNumber(a) <= ToNumber(b)

\* a || b
JsOr(a, b) == IF a \in {0, Null, Undefined, NaN} THEN b ELSE a

\* data[i], with 1-based i; outside the array it is undefined
PointAt(data, i) == IF i \in 1..Len(data) THEN data[i] ELSE NoPoint

\* dataPoint.field; a field the point does not have is undefined
FieldOf(dataPoint, field) ==
  IF field \in DOMAIN dataPoint THEN dataPoint[field] ELSE Undefined

\* getIndicatorValue(dataPoint, indicatorKey) of the alert service
getIndicatorValue(dataPoint, indicatorKey) ==
  IF dataPoint = NoPoint
  THEN Null
  ELSE CASE indicatorKey = "PRICE" -> FieldOf(dataPoint, "price")
         [] indicatorKey = "RSI" -> FieldOf(dataPoint, "rsi")
         [] indicatorKey = "STOCH_K" -> FieldOf(dataPoint, "k")
         [] OTHER -> Null

Abs(x) == IF x < 0 THEN -x ELSE x

\* the switch statement that both evaluateCondition functions share, on the
\* values they have read: cur, prev1 and prevN are the indicator now, one
\* point back and lookback points back; cmp and prevCmp the comparison
\* indicator now and one point back; index0 is the 0-based currentIndex
switchOperator(operator, cur, value, valueFrom, valueTo, prev1, prevN, cmp, prevCmp, hasCompare, lookback, index0) ==
  CASE operator = "GT" -> JsGt(cur, value)
    [] operator = "LT" -> JsLt(cur, value)
    [] operator = "GTE" -> JsGte(cur, value)
    [] operator = "LTE" -> JsLte(cur, value)
    [] operator = "EQ" -> ToNumber(value) # NaN /\ cur = ToNumber(value)
    [] operator = "BETWEEN" -> JsGte(cur, valueFrom) /\ JsLte(cur, valueTo)
    [] operator = "CROSSES_ABOVE" ->
         index0 >= 1 /\ prev1 # Null /\ JsLte(prev1, value) /\ JsGt(cur, value)
    [] operator = "CROSSES_BELOW" ->
         index0 >= 1 /\ prev1 # Null /\ JsGte(prev1, value) /\ JsLt(cur, value)
    [] operator = "CROSSES_ABOVE_IND" ->
         /\ index0 >= 1 /\ hasCompare
         /\ prev1 # Null /\ prevCmp # Null /\ cmp # Null
         /\ JsLte(prev1, prevCmp) /\ JsGt(cur, cmp)
    [] operator = "CROSSES_BELOW_IND" ->
         /\ index0 >= 1 /\ hasCompare
         /\ prev1 # Null /\ prevCmp # Null /\ cmp # Null
         /\ JsGte(prev1, prevCmp) /\ JsLt(cur, cmp)
    [] operator = "INCREASING" ->
         index0 >= lookback /\ prevN # Null /\ JsGt(cur, prevN)
    [] operator = "DECREASING" ->
         index0 >= lookback /\ prevN # Null /\ JsLt(cur, prevN)
    [] operator = "FLAT" ->
         /\ index0 >= lookback /\ prevN # Null
         /\ ToNumber(prevN) # NaN
         /\ 100 * Abs(cur - ToNumber(prevN)) < Abs(cur)
    [] OTHER -> FALSE

\* evaluateCondition(condition, data, currentIndex) of the alert service;
\* indexes are 1-based here, a condition is a row of rule_conditions
evaluateCondition(condition, data, currentIndex) ==
  IF condition = NoCondition \/ currentIndex < 1 \/ currentIndex > Len(data)
  THEN FALSE
  ELSE LET indicatorKey == condition.indicator_key
           compareToIndicator == condition.compare_to_indicator
           value == IF condition.value # Undefined
                    THEN condition.value
                    ELSE JsOr(condition.value_from, condition.value_to)
           currentPoint == data[currentIndex]
           currentValue == getIndicatorValue(currentPoint, indicatorKey)
           lookback == JsOr(condition.lookback, 1)
           previousPoint == PointAt(data, currentIndex - 1)
           lookbackPoint == PointAt(data, currentIndex - lookback)
       IN IF currentValue = Null \/ currentValue = Undefined
          THEN FALSE
          ELSE switchOperator(condition.operator, currentValue, value,
                              condition.value_from, condition.value_to,
                              getIndicatorValue(previousPoint, indicatorKey),
                              getIndicatorValue(lookbackPoint, indicatorKey),
                              getIndicatorValue(currentPoint, compareToIndicator),
                              getIndicatorValue(previousPoint, compareToIndicator),
                              compareToIndicator # "", lookback, currentIndex - 1)

\* rule.logic || 'AND'
logicOf(rule) == IF rule.logic = "" THEN "AND" ELSE rule.logic

\* evaluateRule(rule, data, currentIndex).triggered
evaluateRule(rule, data, currentIndex) ==
  IF rule = NoRule \/ ~rule.enabled \/ Len(rule.conditions) = 0
  THEN FALSE
  ELSE IF logicOf(rule) = "AND"
       THEN \A c \in 1..Len(rule.conditions) :
              evaluateCondition(rule.conditions[c], data, currentIndex)
       ELSE IF logicOf(rule) = "OR"
            THEN \E c \in 1..Len(rule.conditions) :
                   evaluateCondition(rule.conditions[c], data, currentIndex)
            ELSE FALSE

RECURSIVE triggeredFrom(_, _, _)
triggeredFrom(rules, data, currentIndex) ==
  IF rules = <<>>
  THEN <<>>
  ELSE (IF Head(rules).enabled /\ evaluateRule(Head(rules), data, currentIndex)
        THEN <<[rule |-> Head(rules).id, timestamp |-> data[currentIndex].ts]>>
        ELSE <<>>)
       \o triggeredFrom(Tail(rules), data, currentIndex)

\* evaluateAllRules(rules, data) of either engine throws a TypeError: the
\* loop reads rule.enabled of an entry that is null
evaluateAllRulesThrows(rules, data) ==
  /\ Len(rules) # 0
  /\ Len(data) # 0
  /\ \E i \in 1..Len(rules) : rules[i] = NoRule

\* evaluateAllRules(rules, data): the rules triggered at the latest point
evaluateAllRules(rules, data) ==
  IF Len(rules) = 0 \/ Len(data) = 0 THEN <<>> ELSE triggeredFrom(rules, data, Len(data))

\* ----------------------------------------------------------- unified data
\* addValue(ts, updater) for the price field
addPrice(map, ts, price) ==
  IF \E i \in 1..Len(map) : map[i].ts = ts
  THEN [i \in 1..Len(map) |-> IF map[i].ts = ts THEN [map[i] EXCEPT !.price = price] ELSE map[i]]
  ELSE Append(map, [ts |-> ts, price |-> price, fields |-> {}])

\* addValue(ts, updater) for the fields of one indicator history
addFields(map, ts, key) ==
  IF \E i \in 1..Len(map) : map[i].ts = ts
  THEN [i \in 1..Len(map) |->
          IF map[i].ts = ts THEN [map[i] EXCEPT !.fields = @ \cup {key}] ELSE map[i]]
  ELSE Append(map, [ts |-> ts, price |-> Undefined, fields |-> {key}])

RECURSIVE addPrices(_, _)
addPrices(map, ser) ==
  IF ser = <<>>
  THEN map
  ELSE addPrices(addPrice(map, DateParse(Head(ser).time), Head(ser).price), Tail(ser))

RECURSIVE addHistory(_, _, _)
addHistory(map, hist, key) ==
  IF hist = <<>>
  THEN map
  ELSE addHistory(addFields(map, DateParse(Head(hist)), key), Tail(hist), key)

RECURSIVE sortByTs(_)
\* Array.prototype.sort((a, b) => a.ts - b.ts); the map's keys are distinct
sortByTs(map) ==
  IF map = <<>>
  THEN <<>>
  ELSE LET m == CHOOSE i \in 1..Len(map) : \A j \in 1..Len(map) : map[i].ts <= map[j].ts
       IN <<map[m]>> \o sortByTs(SubSeq(map, 1, m - 1) \o SubSeq(map, m + 1, Len(map)))

\* buildUnifiedData()
buildUnifiedData(ser, bufs) ==
  IF Len(ser) = 0
  THEN <<>>
  ELSE sortByTs(addHistory(addHistory(addHistory(addHistory(addPrices(<<>>, ser),
                  bufs["rsi_14"], "rsi_14"),
                  bufs["macd_12_26_9"], "macd_12_26_9"),
                  bufs["stochastic_14_3_3"], "stochastic_14_3_3"),
                  bufs["bollinger_20_2"], "bollinger_20_2"))

\* ------------------------------------------------ unified data, frontend
\* Math.floor(ts / BUCKET_MS) * BUCKET_MS
bucketTs(ts) == (ts \div BUCKET_MS) * BUCKET_MS

\* a unified point that has no field yet
EmptyPoint(ts) ==
  [ts |-> ts, price |-> Undefined, rsi |-> Undefined, k |-> Undefined, d |-> Undefined]

\* one forEach step of mapIndicatorData: the point's fields are written into
\* the entry of its bucket, which is created when the map has none
setFields(map, point, fields) ==
  LET ts == bucketTs(point.ts)
      written(entry) == [f \in DOMAIN entry |-> IF f \in fields THEN point[f] ELSE entry[f]]
  IN IF \E i \in 1..Len(map) : map[i].ts = ts
     THEN [i \in 1..Len(map) |-> IF map[i].ts = ts THEN written(map[i]) ELSE map[i]]
     ELSE Append(map, written(EmptyPoint(ts)))

RECURSIVE addSeries(_, _, _)
\* source.forEach(point => ...) for one of the sources
addSeries(map, source, fields) ==
  IF source = <<>>
  THEN map
  ELSE addSeries(setFields(map, Head(source), fields), Tail(source), fields)

\* a conversion that leaves the map in insertion order
insertionOrder(map) == map

\* Array.from(dataMap.values()).sort((a, b) => a.ts - b.ts)
sortedValues(map) == sortByTs(map)

\* mapIndicatorData({ priceData, rsiData, stochasticData }); the MACD and
\* Bollinger sources are merged by the same code and are left out
mapIndicatorData(sources) ==
  sortedValues(addSeries(addSeries(addSeries(<<>>,
                  sources.priceData, {"price"}),
                  sources.rsiData, {"rsi"}),
                  sources.stochasticData, {"k", "d"}))

\* ------------------------------------------------- rule engine, frontend
\* getIndicatorValue(dataPoint, indicatorKey) of indicatorRegistry.js
getIndicatorValueClient(dataPoint, indicatorKey) ==
  IF dataPoint = NoPoint
  THEN Null
  ELSE LET value == CASE indicatorKey = "PRICE" -> FieldOf(dataPoint, "price")
                      [] indicatorKey = "RSI" -> FieldOf(dataPoint, "rsi")
                      [] indicatorKey = "STOCH_K" -> FieldOf(dataPoint, "k")
                      [] indicatorKey = "STOCH_D" -> FieldOf(dataPoint, "d")
                      [] OTHER -> Null
       IN IF value = Undefined THEN Null ELSE value

\* evaluateCondition(condition, data, currentIndex) of rulesEngine.js;
\* indexes are 1-based here
evaluateConditionClient(condition, data, currentIndex) ==
  IF condition = NoCondition \/ currentIndex < 1 \/ currentIndex > Len(data)
  THEN FALSE
  ELSE LET currentPoint == data[currentIndex]
           currentValue == getIndicatorValueClient(currentPoint, condition.indicatorKey)
           lookback == JsOr(condition.lookback, 1)
           previousPoint == PointAt(data, currentIndex - 1)
           lookbackPoint == PointAt(data, currentIndex - lookback)
       IN IF currentValue = Null \/ currentValue = Undefined
          THEN FALSE
          ELSE switchOperator(condition.operator, currentValue, condition.value,
                 condition.valueFrom, condition.valueTo,
                 getIndicatorValueClient(previousPoint, condition.indicatorKey),
                 getIndicatorValueClient(lookbackPoint, condition.indicatorKey),
                 getIndicatorValueClient(currentPoint, condition.compareToIndicator),
                 getIndicatorValueClient(previousPoint, condition.compareToIndicator),
                 condition.compareToIndicator # "", lookback, currentIndex - 1)

RECURSIVE pushedUntilFalse(_, _)
\* what conditions.every(...) has pushed when it stops: the conditions before
\* the first one that is false
pushedUntilFalse(conditions, results) ==
  IF conditions = <<>> \/ ~Head(results)
  THEN <<>>
  ELSE <<Head(conditions)>> \o pushedUntilFalse(Tail(conditions), Tail(results))

RECURSIVE pushedWhereTrue(_, _)
\* what the for loop of the OR branch has pushed: the conditions that are true
pushedWhereTrue(conditions, results) ==
  IF conditions = <<>>
  THEN <<>>
  ELSE (IF Head(results) THEN <<Head(conditions)>> ELSE <<>>)
       \o pushedWhereTrue(Tail(conditions), Tail(results))

\* an AND branch that keeps what it pushed
keepPushed(pushed, triggered) == pushed

\* if (!triggered) matchedConditions.length = 0
clearUnlessTriggered(pushed, triggered) == IF triggered THEN pushed ELSE <<>>

\* evaluateRule(rule, data, currentIndex) of both engines, given what
\* evaluateCondition returns for each of the rule's conditions
ruleOutcome(rule, results) ==
  IF rule = NoRule \/ ~rule.enabled \/ Len(rule.conditions) = 0
  THEN [triggered |-> FALSE, matchedConditions |-> <<>>]
  ELSE IF logicOf(rule) = "AND"
       THEN LET triggered == \A c \in 1..Len(results) : results[c]
            IN [triggered |-> triggered,
                matchedConditions |->
                  clearUnlessTriggered(pushedUntilFalse(rule.conditions, results), triggered)]
       ELSE IF logicOf(rule) = "OR"
            THEN [triggered |-> \E c \in 1..Len(results) : results[c],
                  matchedConditions |-> pushedWhereTrue(rule.conditions, results)]
            ELSE [triggered |-> FALSE, matchedConditions |-> <<>>]

\* what evaluateCondition returns for each condition of the rule
conditionResults(rule, data, currentIndex) ==
  IF rule = NoRule
  THEN <<>>
  ELSE [c \in 1..Len(rule.conditions) |->
          evaluateCondition(rule.conditions[c], data, currentIndex)]

conditionResultsClient(rule, data, currentIndex) ==
  IF rule = NoRule
  THEN <<>>
  ELSE [c \in 1..Len(rule.conditions) |->
          evaluateConditionClient(rule.conditions[c], data, currentIndex)]

\* evaluateRule(rule, data, currentIndex) of rulesEngine.js
evaluateRuleClient(rule, data, currentIndex) ==
  ruleOutcome(rule, conditionResultsClient(rule, data, currentIndex))

\* evaluateRule(rule, data, currentIndex) of the alert service, with its
\* matchedConditions
evaluateRuleServer(rule, data, currentIndex) ==
  ruleOutcome(rule, conditionResults(rule, data, currentIndex))

RECURSIVE triggeredFromClient(_, _, _)
\* the for loop of evaluateAllRules in rulesEngine.js
triggeredFromClient(rules, data, currentIndex) ==
  IF rules = <<>>
  THEN <<>>
  ELSE (IF Head(rules).enabled /\ evaluateRuleClient(Head(rules), data, currentIndex).triggered
        THEN <<[rule |-> Head(rules).id, timestamp |-> data[currentIndex].ts]>>
        ELSE <<>>)
       \o triggeredFromClient(Tail(rules), data, currentIndex)

RECURSIVE triggeredAtPoint(_, _, _)
\* the inner for loop of evaluateAllRulesForAllPoints, at one point
triggeredAtPoint(rules, data, currentIndex) ==
  IF rules = <<>>
  THEN <<>>
  ELSE (IF Head(rules).enabled /\ evaluateRuleClient(Head(rules), data, currentIndex).triggered
        THEN <<[rule |-> Head(rules).id, timestamp |-> data[currentIndex].ts,
                dataPointIndex |-> currentIndex - 1]>>
        ELSE <<>>)
       \o triggeredAtPoint(Tail(rules), data, currentIndex)

\* evaluateAllRules(rules, data) of rulesEngine.js
evaluateAllRulesClient(rules, data) ==
  IF Len(rules) = 0 \/ Len(data) = 0
  THEN <<>>
  ELSE triggeredFromClient(rules, data, Len(data))

RECURSIVE signalsUpTo(_, _, _)
\* the outer loop of evaluateAllRulesForAllPoints, over the first n points
signalsUpTo(rules, data, n) ==
  IF n = 0
  THEN <<>>
  ELSE signalsUpTo(rules, data, n - 1) \o triggeredAtPoint(rules, data, n)

\* a backfill that looks at the latest point only
latestPointOnly(rules, data) ==
  IF Len(rules) = 0 \/ Len(data) = 0 THEN <<>> ELSE triggeredAtPoint(rules, data, Len(data))

\* evaluateAllRulesForAllPoints(rules, data)
evaluateAllRulesForAllPoints(rules, data) ==
  IF Len(rules) = 0 \/ Len(data) = 0 THEN <<>> ELSE signalsUpTo(rules, data, Len(data))

\* ------------------------------------------------------- alert dispatcher
\* `${signal.rule.id}:${signal.timestamp}`
AlertKey(id, ts) == <<id, ts>>
AlertKeys == {AlertKey(id, DateParse(t)) : id \in RuleIds, t \in Secs}
NoKey == <<0, 0>>

\* The alert service's fields as one record.
Alert == [rulesCache |-> rulesCache, lastEvaluatedTimestamp |-> lastEvaluatedTimestamp,
          sentAlerts |-> sentAlerts, handlers |-> handlers, sendCount |-> sendCount,
          failLog |-> failLog]

SetAlert(a) ==
  /\ rulesCache' = a.rulesCache
  /\ lastEvaluatedTimestamp' = a.lastEvaluatedTimestamp
  /\ sentAlerts' = a.sentAlerts
  /\ handlers' = a.handlers
  /\ sendCount' = a.sendCount
  /\ failLog' = a.failLog

\* a dispatcher that never consults the dedup record
neverSent(sent, key) == FALSE

\* this.sentAlerts.has(alertKey)
alreadySent(sent, key) == key \in sent

\* a catch block that forgets the key so that a later tick retries
forgetOnFailure(sent, key) == sent \ {key}

\* the catch block of the send: the dedup record is left as it is
afterSendFailure(sent, key) == sent

RECURSIVE dispatch(_, _)
\* the for loop over the triggered signals, up to its next await
dispatch(a, todo) ==
  IF todo = <<>>
  THEN a
  ELSE LET key == AlertKey(Head(todo).rule, Head(todo).timestamp)
       IN IF alreadySent(a.sentAlerts, key)
          THEN dispatch(a, Tail(todo))
          ELSE [a EXCEPT !.sentAlerts = @ \cup {key},
                         !.sendCount[key] = @ + 1,
                         !.handlers = @ (+) SetToBag({[pc |-> "send", key |-> key, todo |-> Tail(todo)]})]

\* handleTick() from the rulesCache check on
evaluateTick(a, ser, bufs) ==
  IF Len(a.rulesCache) = 0
  THEN a
  ELSE LET unifiedData == buildUnifiedData(ser, bufs)
       IN IF Len(unifiedData) = 0
          THEN a
          ELSE LET latestDataTimestamp == unifiedData[Len(unifiedData)].ts
               IN IF a.lastEvaluatedTimestamp = latestDataTimestamp
                  THEN a
                  ELSE IF evaluateAllRulesThrows(a.rulesCache, unifiedData)
                       THEN [a EXCEPT !.lastEvaluatedTimestamp = latestDataTimestamp]
                       ELSE dispatch([a EXCEPT !.lastEvaluatedTimestamp = latestDataTimestamp],
                                     evaluateAllRules(a.rulesCache, unifiedData))

\* handleTick(lastQuote) up to its first await; stale says the cache is older than 2 TTLs
handleTick(a, stale, ser, bufs) ==
  IF stale
  THEN [a EXCEPT !.handlers = @ (+) SetToBag({[pc |-> "refresh", key |-> NoKey, todo |-> <<>>]})]
  ELSE evaluateTick(a, ser, bufs)

RECURSIVE handleTickTimes(_, _, _, _, _)
handleTickTimes(a, n, stale, ser, bufs) ==
  IF n = 0 THEN a ELSE handleTickTimes(handleTick(a, stale, ser, bufs), n - 1, stale, ser, bufs)

\* ------------------------------------------------------------------ state
\* the stream service and the alert service, with a series and indicator
\* histories as given
Loaded(ser, bufs) ==
  /\ sockets = [s \in 1..MaxSockets |-> "free"]
  /\ ws = 0
  /\ isConnected = FALSE
  /\ isConnecting = FALSE
  /\ reconnectAttempts = 0
  /\ reconnectTimer = "null"
  /\ timerDelay = 0
  /\ lastEvent = "none"
  /\ stopped = FALSE
  /\ urlInvalid \in BOOLEAN
  /\ lastQuote = NoQuote
  /\ series = ser
  /\ backfillPending = 0
  /\ appendCount = Len(ser)
  /\ indicatorBuffers = bufs
  /\ backfills = 0
  /\ received = NoMessage
  /\ tickCallbacks = <<>>
  /\ ticks = 0
  /\ notified = <<>>
  /\ errorLog = 0
  /\ started = FALSE
  /\ startPending = FALSE
  /\ rulesCache = <<>>
  /\ lastEvaluatedTimestamp = 0
  /\ sentAlerts = {}
  /\ handlers = EmptyBag
  /\ sendCount = [k \in AlertKeys |-> 0]
  /\ failLog = {}

\* the stream service and the alert service as constructed
Constructed == Loaded(<<>>, [k \in IndicatorKeys |-> <<>>])

\* no RSI computation is under way
NoRsi ==
  /\ period = 0
  /\ prices = <<>>
  /\ capacity = 0
  /\ fed = 0
  /\ rsiBuffer = <<>>

\* the rules the users have saved
RulesStored == tradingRules = Rules

\* the rule engine was not called
NoEngineCall ==
  /\ rulesArg = <<>>
  /\ dataArg = <<>>
  /\ indexArg = 0
  /\ evaluation = NoEvaluation

\* no page has mounted the hook
NoHook ==
  /\ indicatorData = NoIndicatorData
  /\ unifiedMemo = <<>>
  /\ signalHistory = <<>>
  /\ lastDataLength = 0
  /\ lastDataSignature = <<>>
  /\ hookRules = <<>>
  /\ committed = NoCommit

Init ==
  /\ Constructed
  /\ NoRsi
  /\ RulesStored
  /\ NoEngineCall
  /\ NoHook

\* -------------------------------------------------------------- connector
\* start()
Start ==
  /\ (FreeSlots(Conn) # {} \/ urlInvalid \/ isConnecting \/ isConnected)
  /\ IF isConnecting \/ isConnected
     THEN UNCHANGED <<sockets, ws, isConnected, isConnecting, reconnectAttempts,
                      reconnectTimer, timerDelay, lastEvent>>
     ELSE SetConn(connect(Conn, urlInvalid))
  /\ stopped' = FALSE
  /\ UNCHANGED <<urlInvalid, rsiVars, extVars, dataVars, fanVars, alertVars>>

\* ws.close(1000, ...) on the socket this.ws refers to
closeSocket(st) ==
  CASE st = "open" -> "closing"
    [] st = "connecting" -> "aborting"
    [] OTHER -> st

\* stop()
Stop ==
  /\ SetConn([Conn EXCEPT !.reconnectTimer = "null",
                          !.sockets = IF ws # 0
                                      THEN [sockets EXCEPT ![ws] = closeSocket(sockets[ws])]
                                      ELSE sockets,
                          !.ws = 0,
                          !.isConnected = FALSE,
                          !.isConnecting = FALSE,
                          !.reconnectAttempts = 0,
                          !.lastEvent = "none"])
  /\ stopped' = TRUE
  /\ UNCHANGED <<urlInvalid, rsiVars, extVars, dataVars, fanVars, alertVars>>

\* the setTimeout callback of scheduleReconnect()
TimerFire ==
  /\ reconnectTimer = "pending"
  /\ (FreeSlots(Conn) # {} \/ urlInvalid \/ isConnecting)
  /\ SetConn(connect([Conn EXCEPT !.reconnectTimer = "stale"], urlInvalid))
  /\ UNCHANGED <<stopped, urlInvalid, rsiVars, extVars, dataVars, fanVars, alertVars>>

\* subscribe(): TRUE when the subscribe message is sent and loadHistoricalData() is called
subscribeSends(c) == c.ws # 0 /\ c.sockets[c.ws] = "open"

\* ws.on('open')
SocketOpen(s) ==
  /\ sockets[s] = "connecting"
  /\ LET c == [Conn EXCEPT !.sockets[s] = "open",
                           !.isConnecting = FALSE,
                           !.isConnected = TRUE,
                           !.reconnectAttempts = 0,
                           !.lastEvent = "open"]
     IN /\ SetConn(c)
        /\ IF subscribeSends(c)
           THEN /\ backfillPending < MaxPending
                /\ backfillPending' = backfillPending + 1
           ELSE UNCHANGED backfillPending
  /\ UNCHANGED <<stopped, urlInvalid, rsiVars, extVars, lastQuote, series, appendCount, indicatorBuffers,
                 backfills, received,
                 fanVars, alertVars>>

\* ws.on('error')
SocketError(s) ==
  /\ sockets[s] \in {"connecting", "open", "aborting"}
  /\ SetConn([Conn EXCEPT !.sockets[s] = "errored",
                          !.isConnected = FALSE,
                          !.isConnecting = FALSE])
  /\ UNCHANGED <<stopped, urlInvalid, rsiVars, extVars, dataVars, fanVars, alertVars>>

\* ws.on('close')
SocketClose(s, code) ==
  /\ sockets[s] \in {"open", "closing", "errored"}
  /\ LET c == [Conn EXCEPT !.sockets[s] = "free",
                           !.isConnected = FALSE,
                           !.isConnecting = FALSE]
     IN SetConn(IF code # 1000 THEN scheduleReconnect(c) ELSE c)
  /\ UNCHANGED <<stopped, urlInvalid, rsiVars, extVars, dataVars, fanVars, alertVars>>

\* ---------------------------------------------------------------- the feed
\* What the feed can send: invalid JSON, or an object with an event name, a raw
\* price and a timestamp (t = 0: no timestamp, the clock reading now is used).
Events == {"price", "heartbeat"}
RawPrices == {"undefined", "abc", "1", "2"}
Messages == [event : Events, price : RawPrices, t : Instants \cup {0}]

\* handleMessage(message): TRUE when the message is taken as a price update
isPriceMessage(msg) == msg.event = "price" \/ msg.price # "undefined"

\* ws.on('message') with handleMessage(message); failing: the /gold/stream
\* callbacks whose res.write throws; stale: the alert service's rules cache is
\* older than two TTLs
SocketMessage(s, badJson, msg, now, failing, stale) ==
  /\ sockets[s] = "open"
  /\ UNCHANGED <<connVars, rsiVars, extVars, backfillPending, backfills, started, startPending>>
  /\ received' = IF badJson
                 THEN [json |-> FALSE, event |-> "", price |-> ""]
                 ELSE [json |-> TRUE, event |-> msg.event, price |-> msg.price]
  /\ IF badJson \/ ~isPriceMessage(msg) \/ isNaN(parseFloat(msg.price))
     THEN UNCHANGED <<lastQuote, series, appendCount, indicatorBuffers, fanVars,
                      rulesCache, lastEvaluatedTimestamp, sentAlerts, handlers,
                      sendCount, failLog>>
     ELSE LET price == parseFloat(msg.price)
              time == toLocaleSeconds(IF msg.t = 0 THEN now ELSE msg.t)
              quote == [price |-> price, time |-> time]
              ser == addToSeries(series, appendCount + 1, time, price)
              bufs == updateIndicators(indicatorBuffers, quote, ser)
              fan == notifyFrom(tickCallbacks, 1, Len(tickCallbacks), failing, <<>>)
          IN /\ appendCount < MaxAppends
             /\ lastQuote' = quote
             /\ series' = ser
             /\ appendCount' = appendCount + 1
             /\ indicatorBuffers' = bufs
             /\ tickCallbacks' = fan.cbs
             /\ ticks' = ticks + 1
             /\ notified' = fan.invoked
             /\ errorLog' = errorLog + countOf(fan.invoked, ThrowingCb)
             /\ SetAlert(handleTickTimes(Alert, countOf(fan.invoked, AlertCb), stale, ser, bufs))

\* A historical response: bars oldest first, each with a datetime and a raw close.
Bars == [time : Secs, price : {"abc", "1"}]
Responses == UNION {[1..n -> Bars] : n \in 0..MaxHist}

RECURSIVE addBars(_, _, _)
\* the forEach of loadHistoricalData(): the points with a numeric price, in order;
\* n counts the addToSeries() calls made so far
addBars(st, n, bars) ==
  IF bars = <<>>
  THEN [series |-> st, count |-> n]
  ELSE LET price == parseFloat(Head(bars).price)
       IN IF ~isNaN(price)
          THEN addBars(addToSeries(st, n + 1, Head(bars).time, price), n + 1, Tail(bars))
          ELSE addBars(st, n, Tail(bars))

\* loadHistoricalData() after its await: failed says getHistoricalData rejected
BackfillDone(failed, bars) ==
  /\ backfillPending > 0
  /\ backfillPending' = backfillPending - 1
  /\ UNCHANGED <<connVars, rsiVars, extVars, lastQuote, received, fanVars, alertVars>>
  /\ IF failed \/ Len(bars) = 0
     THEN UNCHANGED <<series, appendCount, indicatorBuffers, backfills>>
     ELSE LET added == addBars(series, appendCount, bars)
              ser == added.series
          IN /\ added.count <= MaxAppends
             /\ series' = ser
             /\ appendCount' = added.count
             /\ backfills' = IF added.count > appendCount THEN backfills + 1 ELSE backfills
             /\ indicatorBuffers' =
                  IF Len(ser) > 0
                  THEN updateIndicators(indicatorBuffers,
                                        IF lastQuote # NoQuote THEN lastQuote
                                        ELSE [price |-> Last(ser).price, time |-> Last(ser).time],
                                        ser)
                  ELSE indicatorBuffers

\* ------------------------------------------------------------ subscribers
\* onTick(callback), as called by GET /gold/stream and by other consumers
OnTick(cb) ==
  /\ indexOf(tickCallbacks, cb) = 0
  /\ tickCallbacks' = Append(tickCallbacks, cb)
  /\ UNCHANGED <<connVars, rsiVars, extVars, dataVars, ticks, notified, errorLog, alertVars>>

\* offTick(callback), as called when a /gold/stream client disconnects
OffTick(cb) ==
  /\ indexOf(tickCallbacks, cb) > 0
  /\ tickCallbacks' = offTick(tickCallbacks, cb)
  /\ UNCHANGED <<connVars, rsiVars, extVars, dataVars, ticks, notified, errorLog, alertVars>>

\* ---------------------------------------------------------- alert service
\* ruleAlertService.start() up to its await
AlertStart ==
  /\ ~started
  /\ started' = TRUE
  /\ startPending' = TRUE
  /\ UNCHANGED <<connVars, rsiVars, extVars, dataVars, fanVars, rulesCache, lastEvaluatedTimestamp,
                 sentAlerts, handlers, sendCount, failLog>>

\* ruleAlertService.start() after refreshRules(true): ok says the query succeeded
AlertStartResume(ok) ==
  /\ startPending
  /\ startPending' = FALSE
  /\ IF ok
     THEN /\ rulesCache' = getAllEnabledRules(tradingRules)
          /\ tickCallbacks' = Append(tickCallbacks, AlertCb)
     ELSE UNCHANGED <<rulesCache, tickCallbacks>>
  /\ UNCHANGED <<connVars, rsiVars, extVars, dataVars, ticks, notified, errorLog, started,
                 lastEvaluatedTimestamp, sentAlerts, handlers, sendCount, failLog>>

\* handleTick() resumed after await this.refreshRules()
HandlerRefreshed(h, ok) ==
  /\ h \in BagToSet(handlers)
  /\ h.pc = "refresh"
  /\ LET a == [Alert EXCEPT !.handlers = handlers (-) SetToBag({h})]
     IN SetAlert(IF ok
                 THEN evaluateTick([a EXCEPT !.rulesCache = getAllEnabledRules(tradingRules)], series, indicatorBuffers)
                 ELSE a)
  /\ UNCHANGED <<connVars, rsiVars, extVars, dataVars, fanVars, started, startPending>>

\* handleTick() resumed after await telegramService.sendMessage(): ok says it resolved
HandlerSent(h, ok) ==
  /\ h \in BagToSet(handlers)
  /\ h.pc = "send"
  /\ LET a == [Alert EXCEPT !.handlers = handlers (-) SetToBag({h}),
                            !.failLog = IF ok THEN @ ELSE @ \cup {h.key},
                            !.sentAlerts = IF ok THEN @ ELSE afterSendFailure(@, h.key)]
     IN SetAlert(dispatch(a, h.todo))
  /\ UNCHANGED <<connVars, rsiVars, extVars, dataVars, fanVars, started, startPending>>

\* ------------------------------------------------------------- rules CRUD
\* the rule a client saves under an id, enabled or not
StoredRule(id, enabled) ==
  [Rules[id] EXCEPT !.enabled = enabled]

\* the rows of trading_rules other than the rule's, in their order
withoutRule(store, id) ==
  SelectSeq(store, LAMBDA r : r.id # id)

hasRule(store, id) ==
  \E i \in 1..Len(store) : store[i].id = id

\* POST /rules: rulesService.createRule(); the new row is the latest updated
CreateRule(id, enabled) ==
  /\ ~hasRule(tradingRules, id)
  /\ tradingRules' = <<StoredRule(id, enabled)>> \o tradingRules
  /\ UNCHANGED <<connVars, dataVars, fanVars, alertVars, rsiVars, engineVars, hookVars>>

\* PUT /rules/:id: rulesService.updateRule(), which sets updated_at = NOW();
\* disabling a rule is an update with enabled false
UpdateRule(id, enabled) ==
  /\ hasRule(tradingRules, id)
  /\ tradingRules' = <<StoredRule(id, enabled)>> \o withoutRule(tradingRules, id)
  /\ UNCHANGED <<connVars, dataVars, fanVars, alertVars, rsiVars, engineVars, hookVars>>

\* DELETE /rules/:id: rulesService.deleteRule()
DeleteRule(id) ==
  /\ hasRule(tradingRules, id)
  /\ tradingRules' = withoutRule(tradingRules, id)
  /\ UNCHANGED <<connVars, dataVars, fanVars, alertVars, rsiVars, engineVars, hookVars>>

\* the interval callback of start(): refreshRules(); ok says the query succeeded
RefreshInterval(ok) ==
  /\ started
  /\ ~startPending
  /\ rulesCache' = IF ok THEN getAllEnabledRules(tradingRules) ELSE rulesCache
  /\ UNCHANGED <<connVars, dataVars, fanVars, rsiVars, extVars, started, startPending,
                 lastEvaluatedTimestamp, sentAlerts, handlers, sendCount, failLog>>

\* --------------------------------------------------------- specifications
\* The connector alone: the feed is silent and historical requests return no bars.
NextConn ==
  \/ Start
  \/ Stop
  \/ TimerFire
  \/ \E s \in 1..MaxSockets : SocketOpen(s)
  \/ \E s \in 1..MaxSockets : SocketError(s)
  \/ \E s \in 1..MaxSockets, code \in Codes : SocketClose(s, code)
  \/ \E failed \in BOOLEAN : BackfillDone(failed, <<>>)

SpecConn == Init /\ [][NextConn]_vars

\* One connection that stays open, subscribers that come and go, ticks.
TickMessages == [event : {"price"}, price : {"1"}, t : {2}]

NextFanout ==
  \/ Start
  \/ \E s \in 1..MaxSockets : SocketOpen(s)
  \/ \E s \in 1..MaxSockets, msg \in TickMessages, failing \in SUBSET SseCbs :
       SocketMessage(s, FALSE, msg, 2, failing, FALSE)
  \/ \E cb \in Subscribers : OnTick(cb)
  \/ \E cb \in SseCbs : OffTick(cb)
  \/ \E failed \in BOOLEAN : BackfillDone(failed, <<>>)

SpecFanout == Init /\ [][NextFanout]_vars

\* The feed: start() is called once, as server.js does at boot; the connection
\* is lost and re-established by the reconnect timer, with backfill and ticks.
PriceMessages == [event : {"price"}, price : {"1", "2"}, t : Instants]
\* the historical responses whose bars all have a numeric close
PricedResponses == {bars \in Responses : \A i \in 1..Len(bars) : bars[i].price = "1"}

NextData ==
  \/ (ws = 0 /\ reconnectTimer = "null" /\ Start)
  \/ TimerFire
  \/ \E s \in 1..MaxSockets : SocketOpen(s)
  \/ \E s \in 1..MaxSockets : SocketClose(s, 1006)
  \/ \E s \in 1..MaxSockets, msg \in PriceMessages : SocketMessage(s, FALSE, msg, 2, {}, FALSE)
  \/ BackfillDone(TRUE, <<>>)
  \/ \E bars \in PricedResponses : BackfillDone(FALSE, bars)

SpecData == Init /\ [][NextData]_vars

\* The feed sends anything: invalid JSON, heartbeats, messages without a price
\* or with a price that is no number, and price updates; /gold/stream clients
\* subscribe.
NextMalformed ==
  \/ (ws = 0 /\ reconnectTimer = "null" /\ Start)
  \/ \E s \in 1..MaxSockets : SocketOpen(s)
  \/ \E s \in 1..MaxSockets, badJson \in BOOLEAN, msg \in Messages :
       SocketMessage(s, badJson, msg, 2, {}, FALSE)
  \/ \E cb \in SseCbs : OnTick(cb)
  \/ \E failed \in BOOLEAN : BackfillDone(failed, <<>>)

SpecMalformed == Init /\ [][NextMalformed]_vars

\* A shutdown: start() and stop() are called at any time while sockets open and
\* close and historical requests complete; the feed is silent.
NextShutdown ==
  \/ Start
  \/ Stop
  \/ \E s \in 1..MaxSockets : SocketOpen(s)
  \/ \E s \in 1..MaxSockets, code \in Codes : SocketClose(s, code)
  \/ BackfillDone(TRUE, <<>>)
  \/ \E bars \in Responses : BackfillDone(FALSE, bars)

SpecShutdown == Init /\ [][NextShutdown]_vars

\* ------------------------------------------------------- RSI, tick by tick
\* The next price arrives as a tick: it is added to the series, and
\* updateIndicators() computes the RSI over the series as it is then and
\* appends it, stamped with the tick's time (the position of its price).
UpdateRsi ==
  /\ fed < Len(prices)
  /\ fed' = fed + 1
  /\ LET rsi == calculateRSI(windowOf(prices, fed + 1, capacity), period)
     IN rsiBuffer' = IF rsi # Undefined
                     THEN addIndicatorValue(rsiBuffer, [time |-> fed + 1, rsi |-> rsi])
                     ELSE rsiBuffer
  /\ UNCHANGED <<connVars, dataVars, fanVars, alertVars, extVars, period, prices, capacity>>

NextRsi == UpdateRsi

\* every sequence of up to MaxPrices prices, every period up to MaxPeriod, and
\* a series that holds all the prices or all but the oldest
InitRsi ==
  /\ Constructed
  /\ RulesStored
  /\ NoEngineCall
  /\ NoHook
  /\ period \in 1..MaxPeriod
  /\ prices \in UNION {[1..n -> 1..MaxLevel] : n \in 0..MaxPrices}
  /\ capacity \in {MaxPrices - 1, MaxPrices}
  /\ fed = 0
  /\ rsiBuffer = <<>>

SpecRsi == InitRsi /\ [][NextRsi]_vars

\* defaultPeriod equal prices followed by two up-ticks
UpTickSeries(level, up1, up2) ==
  [i \in 1..(defaultPeriod + 2) |->
     IF i <= defaultPeriod THEN level
     ELSE IF i = defaultPeriod + 1 THEN level + up1
     ELSE level + up1 + up2]

InitUpTicks ==
  /\ Constructed
  /\ RulesStored
  /\ NoEngineCall
  /\ NoHook
  /\ period = defaultPeriod
  /\ \E level \in 1..MaxLevel, up1 \in 1..MaxLevel, up2 \in 1..MaxLevel :
       prices = UpTickSeries(level, up1, up2)
  /\ capacity = defaultMaxPoints
  /\ fed = 0
  /\ rsiBuffer = <<>>

SpecUpTicks == InitUpTicks /\ [][NextRsi]_vars

\* ------------------------------------------------------ unified series
\* Timestamps half a minute apart, so that two of them share a bucket.
TsValues == {30000 * h : h \in 0..MaxHalfMinute}
TsSeqs(len) == UNION {[1..n -> TsValues] : n \in 0..len}

\* Sources whose i-th sample carries the value i (plus an offset that tells
\* the fields apart), so that the sample a field was taken from shows.
priceSamples(tss) == [i \in 1..Len(tss) |-> [ts |-> tss[i], price |-> i]]
rsiSamples(tss) == [i \in 1..Len(tss) |-> [ts |-> tss[i], rsi |-> 10 + i]]
stochasticSamples(tss) == [i \in 1..Len(tss) |-> [ts |-> tss[i], k |-> 20 + i, d |-> 30 + i]]

\* The server's inputs: a series and an RSI history in any order of time.
SeriesOf(secs) == [i \in 1..Len(secs) |-> [time |-> secs[i], price |-> 1, n |-> i]]
SecSeqs(len) == UNION {[1..n -> Secs] : n \in 0..len}

\* useMemo(() => mapIndicatorData(indicatorData))
MapIndicatorData ==
  /\ unifiedMemo' = mapIndicatorData(indicatorData)
  /\ UNCHANGED <<connVars, dataVars, fanVars, alertVars, rsiVars, storeVars, engineVars,
                 indicatorData, signalHistory, lastDataLength, lastDataSignature,
                 hookRules, committed>>

\* const unifiedData = this.buildUnifiedData()
BuildUnifiedData ==
  /\ dataArg' = buildUnifiedData(series, indicatorBuffers)
  /\ UNCHANGED <<connVars, dataVars, fanVars, alertVars, rsiVars, storeVars, hookVars,
                 rulesArg, indexArg, evaluation>>

NextUnified ==
  \/ MapIndicatorData
  \/ BuildUnifiedData

\* either the page has sources in any order, or the server has a series
InitUnified ==
  /\ NoRsi
  /\ RulesStored
  /\ NoEngineCall
  /\ unifiedMemo = <<>>
  /\ signalHistory = <<>>
  /\ lastDataLength = 0
  /\ lastDataSignature = <<>>
  /\ hookRules = <<>>
  /\ committed = NoCommit
  /\ \/ /\ Constructed
        /\ \E p \in TsSeqs(MaxSamples), r \in TsSeqs(MaxSamples), st \in TsSeqs(1) :
             indicatorData = [priceData |-> priceSamples(p), rsiData |-> rsiSamples(r),
                              stochasticData |-> stochasticSamples(st)]
     \/ /\ indicatorData = NoIndicatorData
        /\ \E secs \in SecSeqs(maxPoints), hist \in SecSeqs(maxHistoryPoints) :
             Loaded(SeriesOf(secs), [k \in IndicatorKeys |-> IF k = "rsi_14" THEN hist ELSE <<>>])

SpecUnified == InitUnified /\ [][NextUnified]_vars

\* ---------------------------------------------------- rule engine calls
Operators ==
  {"GT", "LT", "GTE", "LTE", "EQ", "BETWEEN", "CROSSES_ABOVE", "CROSSES_BELOW",
   "CROSSES_ABOVE_IND", "CROSSES_BELOW_IND", "INCREASING", "DECREASING", "FLAT"}

\* a condition as the rule editor builds it
ClientCondition(key, op, v, from, to, cmp, lb) ==
  [indicatorKey |-> key, operator |-> op, value |-> v, valueFrom |-> from,
   valueTo |-> to, compareToIndicator |-> cmp, lookback |-> lb]

\* Conditions on the price with every operator and one that does not exist;
\* the literal is 1, absent, or NaN (parseFloat of an empty field); the range
\* is 1..2 or absent; the comparison indicator is RSI or absent.
ConditionInputs ==
  {ClientCondition("PRICE", op, v, r[1], r[2], cmp, lb) :
     op \in Operators \cup {"BOGUS"}, v \in {Undefined, NaN, 1},
     r \in {<<Undefined, Undefined>>, <<1, 2>>}, cmp \in {"", "RSI"}, lb \in {Undefined, 2}}

\* the rule_conditions row that createRule() and updateRule() insert for a
\* condition and that getAllEnabledRules() reads back
rowOf(cond) ==
  [indicator_key |-> cond.indicatorKey, operator |-> cond.operator,
   value |-> JsOr(cond.value, Null), value_from |-> JsOr(cond.valueFrom, Null),
   value_to |-> JsOr(cond.valueTo, Null),
   compare_to_indicator |-> cond.compareToIndicator, lookback |-> JsOr(cond.lookback, 1)]

\* a rule as getAllEnabledRules() returns it
rowsOf(rule) ==
  IF rule = NoRule
  THEN NoRule
  ELSE [rule EXCEPT !.conditions = [c \in 1..Len(rule.conditions) |-> rowOf(rule.conditions[c])]]

RuleOf(id, enabled, logic, conditions) ==
  [id |-> id, enabled |-> enabled, logic |-> logic, conditions |-> conditions]

\* unified data of up to MaxData points, one minute apart
PointOf(i, price, rsi, k) ==
  [ts |-> BUCKET_MS * i, price |-> price, rsi |-> rsi, k |-> k, d |-> Undefined]

\* the price is 1, 2 or absent and the RSI is 2 or absent
PriceData ==
  UNION {{[i \in 1..n |-> PointOf(i, p[i], r[i], Undefined)] :
            p \in [1..n -> {Undefined, 1, 2}], r \in [1..n -> {Undefined, 2}]} : n \in 0..MaxData}

\* the RSI is 28 or 32 and the stochastic %K is 15 or 25
OscillatorData ==
  UNION {{[i \in 1..n |-> PointOf(i, 1, r[i], k[i])] :
            r \in [1..n -> {28, 32}], k \in [1..n -> {15, 25}]} : n \in 0..MaxData}

\* price > 1, price < 2, price >= 1
PriceConditions ==
  {ClientCondition("PRICE", op[1], op[2], Undefined, Undefined, "", Undefined) :
     op \in {<<"GT", 1>>, <<"LT", 2>>, <<"GTE", 1>>}}

ConditionLists ==
  UNION {[1..n -> PriceConditions] : n \in 0..MaxConditions}

\* rules of up to MaxConditions conditions with each logic ("" is a rule
\* whose logic field is not set)
RuleInputs ==
  {RuleOf(1, en, logic, cs) : en \in BOOLEAN, logic \in {"AND", "OR", ""}, cs \in ConditionLists}

\* RSI < 30 AND stochastic %K < 20
OversoldRule(id, enabled) ==
  RuleOf(id, enabled, "AND",
         <<ClientCondition("RSI", "LT", 30, Undefined, Undefined, "", Undefined),
           ClientCondition("STOCH_K", "LT", 20, Undefined, Undefined, "", Undefined)>>)

\* RSI < 30
LowRsiRule(id, enabled) ==
  RuleOf(id, enabled, "AND",
         <<ClientCondition("RSI", "LT", 30, Undefined, Undefined, "", Undefined)>>)

BackfillRules ==
  UNION {{[j \in 1..n |-> IF kind[j] = "oversold" THEN OversoldRule(j, en[j])
                                                  ELSE LowRsiRule(j, en[j])] :
            kind \in [1..n -> {"oversold", "lowRsi"}], en \in [1..n -> BOOLEAN]} :
         n \in 0..MaxRules}

\* a rule that triggers on any priced point
AlwaysRule(id) ==
  RuleOf(id, TRUE, "AND", <<ClientCondition("PRICE", "GTE", 1, Undefined, Undefined, "", Undefined)>>)

\* a rule saved without a conditions array: `rule.conditions` is read as empty
NoConditionsRule(id) ==
  RuleOf(id, TRUE, "AND", <<>>)

UnknownOperatorRule(id) ==
  RuleOf(id, TRUE, "AND", <<ClientCondition("PRICE", "BOGUS", 1, Undefined, Undefined, "", Undefined)>>)

RuleEntry(kind, id) ==
  CASE kind = "null" -> NoRule
    [] kind = "always" -> AlwaysRule(id)
    [] kind = "noConditions" -> NoConditionsRule(id)
    [] OTHER -> UnknownOperatorRule(id)

RuleLists ==
  UNION {{[j \in 1..n |-> RuleEntry(kind[j], j)] :
            kind \in [1..n -> {"null", "always", "noConditions", "unknownOperator"}]} :
         n \in 0..MaxRules}

Pending(call) ==
  [of |-> "pending", call |-> call]

IsPending(call) ==
  evaluation = Pending(call)

\* One call of the engine is pending with its arguments: the rules, the
\* unified data, and the 1-based position of the point (0 and Len + 1 are
\* indexes outside the data).
InitEngine ==
  /\ Loaded(<<>>, [k \in IndicatorKeys |-> <<>>])
  /\ ~urlInvalid
  /\ NoRsi
  /\ RulesStored
  /\ NoHook
  /\ \/ \E c \in ConditionInputs, data \in PriceData :
          /\ rulesArg = <<RuleOf(1, TRUE, "AND", <<c>>)>>
          /\ dataArg = data
          /\ indexArg \in 0..(Len(data) + 1)
          /\ evaluation = Pending("evaluateCondition")
     \/ \E rule \in RuleInputs, data \in PriceData :
          /\ rulesArg = <<rule>>
          /\ dataArg = data
          /\ indexArg \in 0..(Len(data) + 1)
          /\ evaluation = Pending("evaluateRule")
     \/ \E rules \in RuleLists, data \in PriceData :
          /\ rulesArg = rules
          /\ dataArg = data
          /\ indexArg = Len(data)
          /\ evaluation = Pending("evaluateAllRules")
     \/ \E rules \in BackfillRules, data \in OscillatorData :
          /\ rulesArg = rules
          /\ dataArg = data
          /\ indexArg = Len(data)
          /\ evaluation = Pending("evaluateAllRulesForAllPoints")

\* evaluateCondition(condition, data, currentIndex) in the page and, on the
\* stored row of the same condition, in the server
EvaluateCondition ==
  /\ IsPending("evaluateCondition")
  /\ evaluation' =
       [of |-> "evaluateCondition",
        client |-> evaluateConditionClient(rulesArg[1].conditions[1], dataArg, indexArg),
        server |-> evaluateCondition(rowOf(rulesArg[1].conditions[1]), dataArg, indexArg)]
  /\ UNCHANGED <<connVars, dataVars, fanVars, alertVars, rsiVars, storeVars, hookVars,
                 rulesArg, dataArg, indexArg>>

\* evaluateRule(rule, data, currentIndex) in the page and in the server
EvaluateRule ==
  /\ IsPending("evaluateRule")
  /\ evaluation' =
       [of |-> "evaluateRule",
        client |-> evaluateRuleClient(rulesArg[1], dataArg, indexArg),
        server |-> evaluateRuleServer(rowsOf(rulesArg[1]), dataArg, indexArg)]
  /\ UNCHANGED <<connVars, dataVars, fanVars, alertVars, rsiVars, storeVars, hookVars,
                 rulesArg, dataArg, indexArg>>

\* evaluateAllRules(rules, data) in the page and in the server: either the
\* call throws or it returns the signals of the latest point
EvaluateAllRules ==
  /\ IsPending("evaluateAllRules")
  /\ evaluation' =
       IF evaluateAllRulesThrows(rulesArg, dataArg)
       THEN [of |-> "evaluateAllRules", threw |-> TRUE, client |-> <<>>, server |-> <<>>]
       ELSE [of |-> "evaluateAllRules", threw |-> FALSE,
             client |-> evaluateAllRulesClient(rulesArg, dataArg),
             server |-> evaluateAllRules([j \in 1..Len(rulesArg) |-> rowsOf(rulesArg[j])], dataArg)]
  /\ UNCHANGED <<connVars, dataVars, fanVars, alertVars, rsiVars, storeVars, hookVars,
                 rulesArg, dataArg, indexArg>>

\* evaluateAllRulesForAllPoints(rules, data): the backfill of the page
EvaluateAllRulesForAllPoints ==
  /\ IsPending("evaluateAllRulesForAllPoints")
  /\ evaluation' =
       [of |-> "evaluateAllRulesForAllPoints",
        signals |-> evaluateAllRulesForAllPoints(rulesArg, dataArg)]
  /\ UNCHANGED <<connVars, dataVars, fanVars, alertVars, rsiVars, storeVars, hookVars,
                 rulesArg, dataArg, indexArg>>

NextEngine ==
  \/ EvaluateCondition
  \/ EvaluateRule
  \/ EvaluateAllRules
  \/ EvaluateAllRulesForAllPoints

SpecEngine == InitEngine /\ [][NextEngine]_vars

\* ------------------------------------------------------ useRuleEvaluator
\* `${length}|${firstTs}|${lastTs}|${coverage}`; null is the empty tuple
signatureOf(unifiedData) ==
  <<Len(unifiedData), unifiedData[1].ts, unifiedData[Len(unifiedData)].ts,
    Cardinality({i \in 1..Len(unifiedData) : unifiedData[i].price # Undefined}),
    Cardinality({i \in 1..Len(unifiedData) : unifiedData[i].rsi # Undefined}),
    Cardinality({i \in 1..Len(unifiedData) :
                   unifiedData[i].k # Undefined /\ unifiedData[i].d # Undefined})>>

\* rules.filter(r => r.enabled)
activeRules(rules) ==
  SelectSeq(rules, LAMBDA r : r.enabled)

\* a signal as the history keeps it: the rule and the point's timestamp
\* (the id and evaluatedAt fields are left out)
transformed(signals) ==
  [s \in 1..Len(signals) |-> [rule |-> signals[s].rule, timestamp |-> signals[s].timestamp]]

RECURSIVE inTimestampOrder(_, _)
\* the signals of the given timestamps, by timestamp; signals of one
\* timestamp stay in the order they have
inTimestampOrder(signals, stamps) ==
  IF stamps = {}
  THEN <<>>
  ELSE LET t == CHOOSE x \in stamps : \A y \in stamps : x <= y
       IN SelectSeq(signals, LAMBDA s : s.timestamp = t)
          \o inTimestampOrder(signals, stamps \ {t})

\* .sort((a, b) => a.timestamp - b.timestamp), which is stable
sortByTimestamp(signals) ==
  inTimestampOrder(signals, {signals[i].timestamp : i \in 1..Len(signals)})

\* array.slice(-MAX_SIGNAL_HISTORY)
sliceLast(signals) ==
  IF Len(signals) > MAX_SIGNAL_HISTORY
  THEN SubSeq(signals, Len(signals) - MAX_SIGNAL_HISTORY + 1, Len(signals))
  ELSE signals

\* the state of the hook
HookState ==
  [signalHistory |-> signalHistory, lastDataLength |-> lastDataLength,
   lastDataSignature |-> lastDataSignature]

\* the first effect: on load, or when the rules or the data change, evaluate
\* every point; h is the state its updates apply to
fullEvaluation(h, rules, unifiedData) ==
  IF Len(rules) = 0 \/ Len(unifiedData) = 0
  THEN [signalHistory |-> <<>>, lastDataLength |-> 0, lastDataSignature |-> <<>>]
  ELSE IF signatureOf(unifiedData) = lastDataSignature /\ lastDataLength > 0
       THEN h
       ELSE [signalHistory |->
               sliceLast(sortByTimestamp(transformed(
                 evaluateAllRulesForAllPoints(activeRules(rules), unifiedData)))),
             lastDataLength |-> Len(unifiedData),
             lastDataSignature |-> signatureOf(unifiedData)]

\* the second effect: when a point was added, evaluate the latest point and
\* append; it reads the state of the render and its update function applies
\* to h, the state the first effect has set
latestPointEvaluation(h, rules, unifiedData) ==
  IF Len(rules) = 0 \/ Len(unifiedData) = 0
  THEN h
  ELSE IF Len(signalHistory) = 0
       THEN h
       ELSE IF Len(unifiedData) > lastDataLength
            THEN [h EXCEPT !.signalHistory =
                    sliceLast(@ \o transformed(evaluateAllRulesClient(activeRules(rules), unifiedData)))]
            ELSE h

\* the dependencies of the two effects as a render sees them
depsOf(unifiedData) ==
  [rules |-> hookRules, unifiedData |-> unifiedData, lastDataLength |-> lastDataLength,
   lastDataSignature |-> lastDataSignature, historyLength |-> Len(signalHistory)]

\* [rules, unifiedData, lastDataLength, lastDataSignature] differs from the
\* last commit's, or the hook has just mounted
fullDepsChanged(deps) ==
  IF committed = NoCommit
  THEN TRUE
  ELSE <<committed.rules, committed.unifiedData, committed.lastDataLength,
         committed.lastDataSignature>>
       # <<deps.rules, deps.unifiedData, deps.lastDataLength, deps.lastDataSignature>>

\* [unifiedData, lastDataLength, rules, signalHistory.length] differs
latestDepsChanged(deps) ==
  IF committed = NoCommit
  THEN TRUE
  ELSE <<committed.unifiedData, committed.lastDataLength, committed.rules,
         committed.historyLength>>
       # <<deps.unifiedData, deps.lastDataLength, deps.rules, deps.historyLength>>

\* One render of the component that calls the hook and its commit: useMemo
\* recomputes unifiedData, then the effects whose dependencies changed run
\* in order and their state updates are applied.
Render ==
  /\ unifiedMemo' = mapIndicatorData(indicatorData)
  /\ LET deps == depsOf(unifiedMemo')
         h1 == IF fullDepsChanged(deps)
               THEN fullEvaluation(HookState, hookRules, unifiedMemo')
               ELSE HookState
         h2 == IF latestDepsChanged(deps)
               THEN latestPointEvaluation(h1, hookRules, unifiedMemo')
               ELSE h1
     IN /\ IF fullDepsChanged(deps) THEN TRUE ELSE latestDepsChanged(deps)
        /\ committed' = deps
        /\ signalHistory' = h2.signalHistory
        /\ lastDataLength' = h2.lastDataLength
        /\ lastDataSignature' = h2.lastDataSignature
  /\ UNCHANGED <<connVars, dataVars, fanVars, alertVars, rsiVars, storeVars, engineVars,
                 indicatorData, hookRules>>

\* the minute after the latest price sample
nextMinute ==
  IF Len(indicatorData.priceData) = 0
  THEN BUCKET_MS
  ELSE indicatorData.priceData[Len(indicatorData.priceData)].ts + BUCKET_MS

\* price samples received since the page loaded its history
livePoints ==
  IF Len(indicatorData.priceData) >= HistoryPoints
  THEN Len(indicatorData.priceData) - HistoryPoints
  ELSE Len(indicatorData.priceData)

\* the page's history request returns: HistoryPoints samples, one a minute
HistoryLoaded ==
  /\ Len(indicatorData.priceData) = 0
  /\ indicatorData' =
       [indicatorData EXCEPT !.priceData =
          [i \in 1..HistoryPoints |-> [ts |-> BUCKET_MS * i, price |-> 2]]]
  /\ UNCHANGED <<connVars, dataVars, fanVars, alertVars, rsiVars, storeVars, engineVars,
                 unifiedMemo, signalHistory, lastDataLength, lastDataSignature,
                 hookRules, committed>>

\* a live price sample of the next minute reaches the page
DataArrives(price) ==
  /\ livePoints < MaxLive
  /\ indicatorData' =
       [indicatorData EXCEPT !.priceData = Append(@, [ts |-> nextMinute, price |-> price])]
  /\ UNCHANGED <<connVars, dataVars, fanVars, alertVars, rsiVars, storeVars, engineVars,
                 unifiedMemo, signalHistory, lastDataLength, lastDataSignature,
                 hookRules, committed>>

\* price > 1, enabled or disabled
AboveOneRule(id, enabled) ==
  RuleOf(id, enabled, "AND", <<ClientCondition("PRICE", "GT", 1, Undefined, Undefined, "", Undefined)>>)

\* no rule, one rule, two rules of which the second is enabled or not, and
\* ManyRules rules that all trigger on every priced point
HookRuleLists ==
  {<<>>, <<AlwaysRule(1)>>, <<AlwaysRule(1), AboveOneRule(2, TRUE)>>,
   <<AlwaysRule(1), AboveOneRule(2, FALSE)>>, [j \in 1..ManyRules |-> AlwaysRule(j)]}

\* the rules prop changes: a rule was saved, toggled or deleted
RulesChange(rules) ==
  /\ rules # hookRules
  /\ hookRules' = rules
  /\ UNCHANGED <<connVars, dataVars, fanVars, alertVars, rsiVars, storeVars, engineVars,
                 indicatorData, unifiedMemo, signalHistory, lastDataLength,
                 lastDataSignature, committed>>

\* clearHistory()
ClearHistory ==
  /\ signalHistory' = <<>>
  /\ lastDataLength' = 0
  /\ UNCHANGED <<connVars, dataVars, fanVars, alertVars, rsiVars, storeVars, engineVars,
                 indicatorData, unifiedMemo, lastDataSignature, hookRules, committed>>

NextHook ==
  \/ Render
  \/ HistoryLoaded
  \/ \E price \in {1, 2} : DataArrives(price)
  \/ \E rules \in HookRuleLists : RulesChange(rules)
  \/ ClearHistory

\* the hook mounts with some rules and no data
InitHook ==
  /\ Loaded(<<>>, [k \in IndicatorKeys |-> <<>>])
  /\ ~urlInvalid
  /\ NoRsi
  /\ RulesStored
  /\ NoEngineCall
  /\ indicatorData = NoIndicatorData
  /\ unifiedMemo = <<>>
  /\ signalHistory = <<>>
  /\ lastDataLength = 0
  /\ lastDataSignature = <<>>
  /\ hookRules \in HookRuleLists
  /\ committed = NoCommit

SpecHook == InitHook /\ [][NextHook]_vars

\* The rule alert service subscribed to the ticks of one open connection and
\* its backfill; a tick can carry any second again, as a feed does that
\* re-delivers after a reconnect. Every tick's price triggers both rules; a
\* backfilled bar's price triggers one.
AlertMessages == [event : {"price"}, price : {"2"}, t : {2 * sec : sec \in Secs}]

NextAlert ==
  \/ Start
  \/ \E s \in 1..MaxSockets : SocketOpen(s)
  \/ \E s \in 1..MaxSockets, msg \in AlertMessages, stale \in BOOLEAN :
       SocketMessage(s, FALSE, msg, 2, {}, stale)
  \/ BackfillDone(TRUE, <<>>)
  \/ \E bars \in PricedResponses : BackfillDone(FALSE, bars)
  \/ AlertStart
  \/ \E ok \in BOOLEAN : AlertStartResume(ok)
  \/ \E h \in BagToSet(handlers), ok \in BOOLEAN : HandlerRefreshed(h, ok)
  \/ \E h \in BagToSet(handlers), ok \in BOOLEAN : HandlerSent(h, ok)

SpecAlert == Init /\ [][NextAlert]_vars

\* The alert service beside the rules CRUD routes: rules are created,
\* updated, disabled and deleted while ticks arrive; the cache is refreshed
\* by the interval of start() and by a tick that finds it stale. The
\* notification sink is reachable.
NextRules ==
  \/ Start
  \/ \E s \in 1..MaxSockets : SocketOpen(s)
  \/ \E s \in 1..MaxSockets, msg \in AlertMessages, stale \in BOOLEAN :
       SocketMessage(s, FALSE, msg, 2, {}, stale)
  \/ AlertStart
  \/ \E ok \in BOOLEAN : AlertStartResume(ok)
  \/ \E ok \in BOOLEAN : RefreshInterval(ok)
  \/ \E h \in BagToSet(handlers), ok \in BOOLEAN : HandlerRefreshed(h, ok)
  \/ \E h \in BagToSet(handlers) : HandlerSent(h, TRUE)
  \/ \E id \in RuleIds, enabled \in BOOLEAN : CreateRule(id, enabled)
  \/ \E id \in RuleIds, enabled \in BOOLEAN : UpdateRule(id, enabled)
  \/ \E id \in RuleIds : DeleteRule(id)

SpecRules == Init /\ [][NextRules]_vars

\* ------------------------------------------------------- alert dispatcher
\* the second some tick or bar of the buffer repeats
Redelivered(sec) ==
  \E i, j \in 1..Len(series) : i < j /\ series[i].time = sec /\ series[j].time = sec

\* C1: no alert key (ruleId, timestamp) is ever passed to the notification
\* sink more than once.
C1_AtMostOneSend == \A k \in AlertKeys : sendCount[k] <= 1

\* an alerted point was delivered again while two handleTick() calls were suspended
C1_Witness ==
  /\ BagCardinality(handlers) >= 2
  /\ \E k \in AlertKeys : sendCount[k] = 1 /\ \E sec \in Secs : DateParse(sec) = k[2] /\ Redelivered(sec)

\* C2: a key whose send failed has its failure logged, stays in the dedup
\* record, and its one send attempt stays the only one.
C2_FailureKeepsRecord == \A k \in failLog : k \in sentAlerts /\ sendCount[k] = 1

\* a send failed, and its point is again the one evaluated last after it was
\* pushed out of the buffer's tail by later ticks
C2_Witness ==
  \E k \in failLog :
    /\ lastEvaluatedTimestamp = k[2]
    /\ appendCount >= maxPoints + 2
    /\ handlers = EmptyBag

\* ------------------------------------------------------ subscriber fan-out
Range(seq) == {seq[i] : i \in 1..Len(seq)}

\* a step that ran notifyTickCallbacks()
Delivered == ticks' = ticks + 1

\* C3: a callback that throws during a delivery is no longer registered after it.
C3_ThrowerRemoved ==
  [][Delivered /\ ThrowingCb \in Range(notified') => ThrowingCb \notin Range(tickCallbacks')]_vars

\* C4: in a delivery in which a callback throws, every other callback that was
\* registered is invoked.
C4_OthersStillReceive ==
  [][Delivered /\ ThrowingCb \in Range(notified')
       => \A cb \in Range(tickCallbacks) : cb \in Range(notified')]_vars

\* C5: a delivery invokes exactly the callbacks registered at its start, once
\* each and in subscription order.
C5_EveryCallbackOnce == [][Delivered => notified' = tickCallbacks]_vars

\* ------------------------------------------------------------ price buffer
Min(a, b) == IF a < b THEN a ELSE b

\* C6: the buffer holds at most maxPoints points, and they are the most
\* recently appended ones in order of appending (the oldest are evicted first).
C6_BoundedFifo ==
  /\ Len(series) <= maxPoints
  /\ Len(series) = Min(appendCount, maxPoints)
  /\ \A i \in 1..Len(series) : series[i].n = appendCount - Len(series) + i

\* maxPoints + 1 points were appended: the first is gone, the last is there
C6_Witness ==
  /\ appendCount = maxPoints + 1
  /\ \A i \in 1..Len(series) : series[i].n # 1
  /\ series[Len(series)].n = maxPoints + 1

\* C7: the timestamps of the buffer are strictly increasing.
C7_StrictlyIncreasing ==
  \A i, j \in 1..Len(series) : i < j => series[i].time < series[j].time

\* ------------------------------------------------------------ the connector
LiveSockets == {s \in 1..MaxSockets : sockets[s] \in {"connecting", "open"}}

\* C8: at most one upstream socket is connecting or open at any time.
C8_OneConnection == Cardinality(LiveSockets) <= 1

\* a step in which connect() created a WebSocket
NewSocket == \E s \in 1..MaxSockets : sockets[s] # "connecting" /\ sockets'[s] = "connecting"

\* C9: once stop() has returned and until start() is called, no reconnect timer
\* is pending and no connection attempt is made.
C9_StopIsFinal ==
  [][(stopped' => reconnectTimer' # "pending") /\ (stopped /\ stopped' => ~NewSocket)]_vars

\* a step in which scheduleReconnect() set a timer
Scheduled == reconnectAttempts' = reconnectAttempts + 1

\* C10: the delay does not decrease from one scheduled reconnect to the next
\* while no connect succeeds in between; the open handler resets the attempt
\* counter, and the first reconnect scheduled after it waits the base delay.
C10_Backoff ==
  [][/\ (Scheduled /\ lastEvent = "sched" => timerDelay' >= timerDelay)
     /\ (lastEvent' = "open" => reconnectAttempts' = 0)
     /\ (Scheduled /\ lastEvent = "open" => timerDelay' = ReconnectDelayFor(0))]_vars

\* a connect succeeded after several failed attempts and reset the counter
C10_Witness ==
  /\ lastEvent = "open"
  /\ reconnectAttempts = 0
  /\ timerDelay >= ReconnectDelayFor(2)

\* C11: consecutive reconnect delays start at the base delay and grow by the
\* factor 1.5, and no delay exceeds the one of the last permitted attempt.
C11_GeometricCapped ==
  [][Scheduled =>
       /\ timerDelay' <= ReconnectDelayFor(maxReconnectAttempts - 1)
       /\ (lastEvent = "sched" => 2 * timerDelay' = 3 * timerDelay)
       /\ (lastEvent # "sched" => timerDelay' = ReconnectDelayFor(0))]_vars

\* the last permitted reconnect is scheduled, with the largest delay
C11_Witness ==
  /\ reconnectTimer = "pending"
  /\ reconnectAttempts = maxReconnectAttempts
  /\ timerDelay = ReconnectDelayFor(maxReconnectAttempts - 1)

\* the connector is at rest without a connection: started, not stopped, no
\* socket alive or still closing, no reconnect timer, attempts left
Resting ==
  /\ ws # 0
  /\ ~stopped
  /\ \A s \in 1..MaxSockets : sockets[s] = "free"
  /\ reconnectTimer # "pending"
  /\ reconnectAttempts < maxReconnectAttempts

\* C12: a connector that lost its connection, was not stopped and has attempts
\* left never rests: a reconnect is scheduled.
C12_NeverRestsDisconnected == ~Resting

\* every permitted reconnect was scheduled and the last timer is no longer pending
Exhausted == reconnectAttempts = maxReconnectAttempts /\ reconnectTimer # "pending"

\* C13: once the maximum number of reconnects was scheduled and the last one
\* was made, no step of the connector other than a call of start() sets a
\* reconnect timer or creates a socket.
C13_NoReconnectAfterMax ==
  [][(Exhausted /\ ~Start) => (reconnectTimer' # "pending" /\ ~NewSocket)]_vars

\* the last permitted attempt failed and the connector gave up
C13_Witness ==
  /\ Exhausted
  /\ ~urlInvalid
  /\ ~stopped
  /\ \A s \in 1..MaxSockets : sockets[s] = "free"

\* ------------------------------------------------------------- the backfill
\* C14: over all connects and reconnects, at most one historical response has
\* its bars appended to the series.
C14_BackfillOnce == backfills <= 1

\* C15: a live tick is appended and delivered only while no historical
\* request is in flight.
C15_NoTickBeforeBackfill == [][Delivered => backfillPending = 0]_vars

\* C16: while the connector is stopped, no step modifies the series or the
\* indicator histories.
C16_StopDiscardsBackfill ==
  [][(stopped /\ stopped') => (series' = series /\ indicatorBuffers' = indicatorBuffers)]_vars

\* ------------------------------------------------------------ tick ordering
\* C17: when a tick is processed, no handleTick() invocation of an earlier
\* tick is still suspended: every tick is processed to the end before the next.
C17_TickFullyProcessed == [][Delivered => handlers = EmptyBag]_vars

\* ------------------------------------------------------- malformed messages
\* a message that is not valid JSON, carries no price, or carries a price that
\* is no number
Unparseable(m) == ~m.json \/ m.price = "undefined" \/ m.price \notin {"1", "2"}

\* C18: the delivery of such a message changes neither the last quote, the
\* series, the indicator histories nor the connection, and notifies nobody.
C18_MalformedDropped ==
  [][(received' # received /\ Unparseable(received')) =>
       UNCHANGED <<lastQuote, series, appendCount, indicatorBuffers, tickCallbacks, ticks,
                   notified, errorLog, handlers, sockets, ws, isConnected, isConnecting>>]_vars

\* a subscriber is registered, a tick was accepted, and the message after it
\* carried a price that is no number
C18_Witness ==
  /\ received.json /\ received.price = "abc"
  /\ ticks >= 1
  /\ tickCallbacks # <<>>
  /\ \E s \in 1..MaxSockets : sockets[s] = "open"

\* the value the tick-by-tick buffer holds for the price at position t
RsiAt(t) ==
  LET hits == {i \in 1..Len(rsiBuffer) : rsiBuffer[i].time = t}
  IN IF hits = {} THEN Undefined ELSE rsiBuffer[CHOOSE i \in hits : TRUE].rsi

\* C19: at every timestamp for which both the tick-by-tick buffer and the
\* batch computation over the same prices have an RSI value, the two values
\* are equal - also when the average loss is zero and when the sequence is
\* longer than the price buffer's capacity.
C19_IncrementalEqualsBatch ==
  LET batch == calculateHistoricalRsi(SubSeq(prices, 1, fed), period)
  IN \A i \in 1..Len(rsiBuffer), k \in 1..Len(batch) :
       rsiBuffer[i].time = batch[k].ts => rsiBuffer[i].rsi = batch[k].rsi

\* both up-ticks have been processed
BothUpTicks ==
  /\ period = defaultPeriod
  /\ fed = defaultPeriod + 2
  /\ Len(prices) = defaultPeriod + 2

\* C20 as stated: after 14 equal prices and two up-ticks, period 14, the RSI
\* at the second up-tick is strictly greater than the RSI at the first, and
\* both lie within [0,100].
C20_RsiRisesStrictly ==
  BothUpTicks =>
    /\ RsiAt(defaultPeriod + 2) > RsiAt(defaultPeriod + 1)
    /\ RsiAt(defaultPeriod + 1) \in 0..10000
    /\ RsiAt(defaultPeriod + 2) \in 0..10000

\* C20, amended: after 14 equal prices and two up-ticks, period 14,
\* calculateRSI gives 100 at the first up-tick and 100 at the second (the
\* average loss is zero at both), so the RSI does not rise and both values
\* lie within [0,100].
C20_RsiStaysAtHundred ==
  BothUpTicks =>
    /\ RsiAt(defaultPeriod + 1) = 10000
    /\ RsiAt(defaultPeriod + 2) = 10000
    /\ RsiAt(defaultPeriod + 2) = RsiAt(defaultPeriod + 1)
    /\ RsiAt(defaultPeriod + 1) \in 0..10000
    /\ RsiAt(defaultPeriod + 2) \in 0..10000

C20_Witness ==
  /\ BothUpTicks
  /\ Len(rsiBuffer) = 2
  /\ prices[defaultPeriod + 2] > prices[defaultPeriod + 1]
  /\ prices[defaultPeriod + 1] > prices[defaultPeriod]

\* C29: every indicator history holds at most one value per accepted tick, so
\* it never holds more values than ticks were accepted - also after the
\* backfill that follows a reconnect.
C29_OneValuePerTick ==
  \A k \in IndicatorKeys : Len(indicatorBuffers[k]) <= ticks

\* ts strictly increases along a unified series
StrictlyIncreasingTs(u) == \A i \in 1..(Len(u) - 1) : u[i].ts < u[i + 1].ts

\* C21: the unified series built by mapIndicatorData (page) and by
\* buildUnifiedData (server) is sorted by strictly increasing timestamp, with
\* no timestamp twice, whatever the order and repetitions of the inputs.
C21_UnifiedStrictlySorted ==
  /\ StrictlyIncreasingTs(unifiedMemo)
  /\ StrictlyIncreasingTs(dataArg)
  /\ StrictlyIncreasingTs(mapIndicatorData(indicatorData))
  /\ StrictlyIncreasingTs(buildUnifiedData(series, indicatorBuffers))

\* a series of two points was built from price samples given latest first
\* and from sources that repeat a bucket
C21_Witness ==
  /\ Len(unifiedMemo) = 2
  /\ Len(indicatorData.priceData) = 2
  /\ indicatorData.priceData[1].ts > indicatorData.priceData[2].ts
  /\ Len(indicatorData.rsiData) = 2
  /\ bucketTs(indicatorData.rsiData[1].ts) = bucketTs(indicatorData.rsiData[2].ts)

\* C22: the samples of one bucket (one minute of the feed) yield exactly one
\* unified point, so the series the alert service builds never holds two
\* points of the same bucket.
C22_OnePointPerBucket ==
  LET u == buildUnifiedData(series, indicatorBuffers)
  IN \A i, j \in 1..Len(u) : bucketTs(u[i].ts) = bucketTs(u[j].ts) => i = j

\* C23: evaluateCondition returns false, in the page and in the server, when
\* a value it requires is missing: the current value, the previous or
\* lookback value, the comparison indicator's value, the literal or range
\* operand, or a point at an index outside the data.
C23_MissingValueIsFalse ==
  evaluation.of = "evaluateCondition" =>
    LET c == rulesArg[1].conditions[1]
        lb == IF c.lookback = Undefined THEN 1 ELSE c.lookback
        absent(x) == x \in {Undefined, NaN, Null}
        priceAt(j) == IF j \in 1..Len(dataArg) THEN dataArg[j].price ELSE Undefined
        rsiAt(j) == IF j \in 1..Len(dataArg) THEN dataArg[j].rsi ELSE Undefined
        missing ==
          \/ absent(priceAt(indexArg))
          \/ /\ c.operator \in {"GT", "LT", "GTE", "LTE", "EQ", "CROSSES_ABOVE", "CROSSES_BELOW"}
             /\ absent(c.value)
          \/ /\ c.operator = "BETWEEN"
             /\ absent(c.valueFrom) \/ absent(c.valueTo)
          \/ /\ c.operator \in {"CROSSES_ABOVE", "CROSSES_BELOW",
                                "CROSSES_ABOVE_IND", "CROSSES_BELOW_IND"}
             /\ absent(priceAt(indexArg - 1))
          \/ /\ c.operator \in {"CROSSES_ABOVE_IND", "CROSSES_BELOW_IND"}
             /\ \/ c.compareToIndicator = ""
                \/ absent(rsiAt(indexArg))
                \/ absent(rsiAt(indexArg - 1))
          \/ /\ c.operator \in {"INCREASING", "DECREASING", "FLAT"}
             /\ absent(priceAt(indexArg - lb))
    IN missing => ~evaluation.client /\ ~evaluation.server

\* C24: with AND logic a rule triggers only if every condition is true at
\* the point; if one is false the rule is not triggered and matchedConditions
\* is empty; if it triggers matchedConditions holds all its conditions.
C24_AndRequiresEveryCondition ==
  (evaluation.of = "evaluateRule" /\ rulesArg[1].logic \in {"AND", ""}) =>
    LET rule == rulesArg[1]
        inside == indexArg \in 1..Len(dataArg)
        holds(c) ==
          /\ inside
          /\ dataArg[indexArg].price # Undefined
          /\ CASE c.operator = "GT" -> dataArg[indexArg].price > c.value
               [] c.operator = "LT" -> dataArg[indexArg].price < c.value
               [] OTHER -> dataArg[indexArg].price >= c.value
        every == \A j \in 1..Len(rule.conditions) : holds(rule.conditions[j])
    IN /\ evaluation.client.triggered => every
       /\ evaluation.server.triggered => every
       /\ ~every => /\ ~evaluation.client.triggered
                    /\ evaluation.client.matchedConditions = <<>>
                    /\ ~evaluation.server.triggered
                    /\ evaluation.server.matchedConditions = <<>>
       /\ evaluation.client.triggered => evaluation.client.matchedConditions = rule.conditions
       /\ evaluation.server.triggered =>
            evaluation.server.matchedConditions = rowsOf(rule).conditions
       /\ (rule.enabled /\ Len(rule.conditions) > 0 /\ every) =>
            evaluation.client.triggered /\ evaluation.server.triggered

\* an enabled AND rule {price >= 1, price > 1} was evaluated at a point whose
\* price is 1: its first condition is true and its second is false
C24_Witness ==
  /\ evaluation.of = "evaluateRule"
  /\ rulesArg[1].enabled
  /\ rulesArg[1].logic = "AND"
  /\ Len(rulesArg[1].conditions) = 2
  /\ rulesArg[1].conditions[1].operator = "GTE"
  /\ rulesArg[1].conditions[2].operator = "GT"
  /\ indexArg \in 1..Len(dataArg)
  /\ dataArg[indexArg].price = 1
  /\ ~evaluation.client.triggered

\* C25: the backfill returns a signal for a rule and a point exactly when
\* the rule is enabled and triggers at that point, once; for the rule
\* {RSI < 30 AND %K < 20} on rsi 32, k 25 at T-1 and rsi 28, k 15 at T it
\* returns exactly one signal, at T.
C25_BackfillSignalsExactlyTriggers ==
  evaluation.of = "evaluateAllRulesForAllPoints" =>
    LET signals == evaluation.signals
        triggers(rule, point) ==
          /\ rule.enabled
          /\ point.rsi < 30
          /\ Len(rule.conditions) = 2 => point.k < 20
        due == {p \in (1..Len(rulesArg)) \X (1..Len(dataArg)) :
                  triggers(rulesArg[p[1]], dataArg[p[2]])}
    IN /\ \A p \in (1..Len(rulesArg)) \X (1..Len(dataArg)) :
            (p \in due) <=>
              \E s \in 1..Len(signals) :
                signals[s].rule = rulesArg[p[1]].id /\ signals[s].timestamp = dataArg[p[2]].ts
       /\ Len(signals) = Cardinality(due)
       /\ (/\ rulesArg = <<OversoldRule(1, TRUE)>>
           /\ dataArg = <<PointOf(1, 1, 32, 25), PointOf(2, 1, 28, 15)>>) =>
            /\ Len(signals) = 1
            /\ signals[1].timestamp = dataArg[2].ts

\* the backfill ran for the enabled rule {RSI < 30 AND %K < 20} on the two
\* points rsi 32, k 25 and rsi 28, k 15
C25_Witness ==
  /\ evaluation.of = "evaluateAllRulesForAllPoints"
  /\ rulesArg = <<OversoldRule(1, TRUE)>>
  /\ Len(dataArg) = 2
  /\ dataArg[1].rsi = 32 /\ dataArg[1].k = 25
  /\ dataArg[2].rsi = 28 /\ dataArg[2].k = 15
  /\ Len(evaluation.signals) = 1

\* C27: a malformed rule (a null entry, a rule without conditions, a rule
\* with an unknown operator) is contained: every other enabled rule of the
\* list that triggers at the latest point is still reported by
\* evaluateAllRules, in the page and in the server.
C27_MalformedRuleContained ==
  (evaluation.of = "evaluateAllRules" /\ Len(dataArg) > 0) =>
    \A j \in 1..Len(rulesArg) :
      (rulesArg[j] = AlwaysRule(j) /\ dataArg[Len(dataArg)].price # Undefined) =>
        /\ \E s \in 1..Len(evaluation.client) : evaluation.client[s].rule = j
        /\ \E s \in 1..Len(evaluation.server) : evaluation.server[s].rule = j

\* C26: a tick is evaluated against the rule set as the CRUD routes left it:
\* a tick never starts an alert for a rule that was deleted or disabled
\* before it.
C26_ChangedRulesApplyToNextTick ==
  [][ticks' = ticks + 1 =>
       \A key \in sentAlerts' \ sentAlerts :
         \E i \in 1..Len(tradingRules) :
           tradingRules[i].id = key[1] /\ tradingRules[i].enabled]_vars

\* the cap the rules README documents for the signal history
DOCUMENTED_MAX_SIGNALS == 100

\* C28: signalHistory never holds more than 100 signals.
C28_HistoryAtMostHundred ==
  Len(signalHistory) <= DOCUMENTED_MAX_SIGNALS

\* C30: signalHistory never holds two entries for the same rule and the same
\* data-point timestamp.
C30_NoDuplicateSignal ==
  \A i, j \in 1..Len(signalHistory) :
    (/\ signalHistory[i].rule = signalHistory[j].rule
     /\ signalHistory[i].timestamp = signalHistory[j].timestamp) => i = j

====
